---- MODULE Spec2Model ----
(***************************************************************************)
(* untappd-data: the venue registry, the feed jobs and parse_post.         *)
(*                                                                         *)
(* The specifications share the variables of this module; the actions of  *)
(* one leave the state of the others as it is:                             *)
(*   Spec      the two jobs that work on the venue registry                *)
(*   FaultSpec Spec with the responses of status 200 on which the code of  *)
(*             the venue-location job raises                               *)
(*   PollSpec, FeedSpec                                                    *)
(*             update-untappd-rss-feed-data.py (the poll job) on its own,  *)
(*             and interleaved with parse-untappd-rss-feed-data.py (the    *)
(*             parse job)                                                  *)
(*   SeqFeedSpec                                                           *)
(*             the poll job and the parse job, run after run               *)
(*   PostSpec  parse_post of the parse job, applied to one post            *)
(*   HtmlSpec  CheckinHTMLParser and VenueHTMLParser, fed one page         *)
(*   LookupSpec                                                            *)
(*             the two search_foursquare functions, applied to one         *)
(*             response                                                    *)
(*   ListSpec  append_to_venues over the parse runs                        *)
(*   BackupSpec                                                            *)
(*             create_backup over the days                                 *)
(*                                                                         *)
(* Two jobs work on the venue registry venue_locations.csv:                *)
(*   - get-untappd-venue-locations.py  (the venue-location job, "loc")     *)
(*   - clean-and-backup-untappd-data.py (the premium completion job,       *)
(*     "clean")                                                            *)
(* A registry row is [venue, untappd_url, foursquare_url, address, lat,    *)
(* long, categories, in_united_states].  The python code indexes the data  *)
(* part of a row from 0; sequences here start at 1, so python data[k] is   *)
(* data[k+1] below (python data[3], the latitude, is data[4]).             *)
(***************************************************************************)
EXTENDS Naturals, Sequences, FiniteSets, TLC

(***************************************************************************)
(* Bounds of the model.                                                    *)
(***************************************************************************)
NumVenues == 2

(***************************************************************************)
(* Cell values.  In memory a cell is a python str, float or bool; the csv  *)
(* writer stores str(cell), and the csv reader returns str cells only.     *)
(***************************************************************************)
Str(s) == [ty |-> "str", v |-> s]
Num(s) == [ty |-> "float", v |-> s]
Bool(b) == [ty |-> "bool", v |-> IF b THEN "True" ELSE "False"]

ToCsv(cell) == Str(cell.v)

Empty == Str("")
Missing == Str("Missing")
Unavailable == Str("Unavailable")

\* python truthiness of a cell that holds a str
Truthy(cell) == cell # Empty

\* python: x in list
In(cell, list) == \E k \in 1..Len(list) : list[k] = cell

RECURSIVE Join(_)
\* python: ', '.join(str(a) for a in list)
Join(list) ==
    IF list = <<>> THEN ""
    ELSE IF Len(list) = 1 THEN Head(list)
    ELSE Head(list) \o ", " \o Join(Tail(list))

(***************************************************************************)
(* venue_dict: a python dict (insertion ordered) from venue name to the    *)
(* seven data cells, kept as the sequence of its items.                    *)
(***************************************************************************)
Has(d, venue) == \E k \in 1..Len(d) : d[k].venue = venue
Idx(d, venue) == CHOOSE k \in 1..Len(d) : d[k].venue = venue
Get(d, venue) == d[Idx(d, venue)].data
Put(d, venue, data) ==
    IF Has(d, venue)
    THEN [d EXCEPT ![Idx(d, venue)].data = data]
    ELSE Append(d, [venue |-> venue, data |-> data])

\* python: list[-5:] = row
SetLast5(data, row) == SubSeq(data, 1, 2) \o row
Last5(data) == SubSeq(data, 3, 7)

write_dict_to_csv(d) ==
    [k \in 1..Len(d) |->
        [venue |-> d[k].venue,
         data  |-> [c \in 1..Len(d[k].data) |-> ToCsv(d[k].data[c])]]]

RECURSIVE read_rows(_, _)
read_rows(rows, d) ==
    IF rows = <<>> THEN d
    ELSE read_rows(Tail(rows), Put(d, Head(rows).venue, Head(rows).data))

read_csv_to_dict(rows) == read_rows(rows, <<>>)

(***************************************************************************)
(* venue_list.csv: rows [venue name, checkin url], unique by name.         *)
(***************************************************************************)
VenueNames == <<"v1", "v2", "v3", "v4">>
venue_list == [k \in 1..NumVenues |-> <<VenueNames[k], "https://untappd.com/user/u/checkin/1">>]

(***************************************************************************)
(* Upstream responses.                                                     *)
(***************************************************************************)
UntappdVenueUrl == "https://untappd.com/v/venue/1"
FoursquareUrl == "https://foursquare.com/v/id1"
ScrapedCoords == <<"40.1", "-75.1">>

\* python: venue_url.split('/')[-1]
LastSegment(url) == IF url = FoursquareUrl THEN "id1" ELSE url

\* checkin page: status and the list CheckinHTMLParser.url
CheckinResponses ==
    { [status |-> 404, url |-> <<>>],
      [status |-> 503, url |-> <<>>],
      [status |-> 200, url |-> <<>>],
      [status |-> 200, url |-> <<"/v/venue/1">>] }

\* venue page: status and the lists VenueHTMLParser.urls and .coords
VenueResponses ==
    { [status |-> 404, urls |-> <<>>, coords |-> <<>>],
      [status |-> 503, urls |-> <<>>, coords |-> <<>>],
      [status |-> 200, urls |-> <<>>, coords |-> ScrapedCoords],
      [status |-> 200, urls |-> <<FoursquareUrl>>, coords |-> <<>>],
      [status |-> 200, urls |-> <<FoursquareUrl>>, coords |-> ScrapedCoords] }

\* lookup API payloads: python dicts as functions, a missing key is a key
\* outside the DOMAIN
LocFull ==
    [formattedAddress |-> <<"1 Main St", "Town">>, lat |-> "40.1",
     lng |-> "-75.1", country |-> "United States"]
LocMoved ==
    [formattedAddress |-> <<"2 High St">>, lat |-> "40.2",
     lng |-> "-75.2", country |-> "Canada"]
LocPrivate == [lat |-> "40.2", lng |-> "-75.2", country |-> "United States"]
LocNoAddress ==
    [formattedAddress |-> <<>>, lat |-> "40.2", lng |-> "-75.2",
     country |-> "United States"]
LocNoCountry ==
    [formattedAddress |-> <<"1 Main St", "Town">>, lat |-> "40.1", lng |-> "-75.1"]
LocNoAddressNoCountry == [formattedAddress |-> <<>>, lat |-> "40.2", lng |-> "-75.2"]

Bar == [name |-> "Bar"]

Venue(id, location, categories) ==
    [id |-> id, location |-> location, categories |-> categories]

\* search-by-name: status and data['response']['venues']
SearchResponses ==
    { [status |-> 503, venues |-> <<>>],
      [status |-> 200, venues |-> <<>>],
      [status |-> 200, venues |-> <<Venue("id1", LocFull, <<Bar>>)>>],
      [status |-> 200, venues |-> <<Venue("id2", LocFull, <<Bar>>),
                                    Venue("id1", LocMoved, <<>>)>>],
      [status |-> 200, venues |-> <<Venue("id1", LocPrivate, <<Bar>>)>>],
      [status |-> 200, venues |-> <<Venue("id1", LocNoAddress, <<Bar>>)>>] }

\* fetch-by-id: status and data['response']
DetailResponses ==
    { [status |-> 400, response |-> <<>>],
      [status |-> 503, response |-> <<>>],
      [status |-> 200, response |-> <<>>],
      [status |-> 200, response |-> [venue |-> [location |-> LocFull, categories |-> <<Bar>>]]],
      [status |-> 200, response |-> [venue |-> [location |-> LocNoCountry, categories |-> <<>>]]],
      [status |-> 200, response |-> [venue |-> [location |-> LocNoAddress, categories |-> <<Bar>>]]],
      [status |-> 200, response |-> [venue |-> [location |-> LocNoAddressNoCountry,
                                                categories |-> <<Bar>>]]] }

(***************************************************************************)
(* get-untappd-venue-locations.py: search_untappd.  The function sends the *)
(* checkin page request and, when that page holds a venue link, the venue  *)
(* page request.  NeedsVenuePage tells whether the second request is sent; *)
(* search_untappd gives the returned list from the two responses (the      *)
(* second is not looked at when it was not sent).                          *)
(***************************************************************************)
Missing5 == <<Missing, Missing, Missing, Missing, Missing>>
Empty5 == <<Empty, Empty, Empty, Empty, Empty>>

NeedsVenuePage(checkin) == checkin.status = 200 /\ checkin.url # <<>>

search_untappd(checkin, page) ==
    IF checkin.status = 404 THEN Missing5
    ELSE IF checkin.status # 200 THEN Empty5
    ELSE IF checkin.url = <<>> THEN Missing5
    ELSE IF page.status = 404 THEN Missing5
    ELSE IF page.status # 200 THEN Empty5
    ELSE IF page.urls # <<>> /\ page.coords # <<>>
         THEN <<Str(UntappdVenueUrl), Str(page.urls[1]), Empty,
                Str(page.coords[1]), Str(page.coords[2])>>
         ELSE Missing5

(***************************************************************************)
(* get-untappd-venue-locations.py: search_foursquare (search by name).     *)
(***************************************************************************)
CategoryNames(categories) == [k \in 1..Len(categories) |-> categories[k].name]

\* mutant: the first candidate that carries every key is accepted,
\* whatever its id
RECURSIVE search_foursquare_match_IgnoresId(_, _, _)
search_foursquare_match_IgnoresId(venues, venue_id, coords) ==
    IF venues = <<>>
    THEN <<Missing, coords[1], coords[2], Missing, Missing>>
    ELSE LET venue == Head(venues).location
             categories == Head(venues).categories
         IN  IF /\ {"formattedAddress", "lat", "lng", "country"} \subseteq DOMAIN venue
                /\ \A k \in 1..Len(categories) : "name" \in DOMAIN categories[k]
             THEN <<Str(Join(venue.formattedAddress)),
                    Num(venue.lat),
                    Num(venue.lng),
                    IF categories # <<>>
                    THEN Str(Join(CategoryNames(categories)))
                    ELSE Str("Uncategorized"),
                    Bool(venue.country = "United States")>>
             ELSE search_foursquare_match_IgnoresId(Tail(venues), venue_id, coords)

RECURSIVE search_foursquare_match(_, _, _)
search_foursquare_match(venues, venue_id, coords) ==
    IF venues = <<>>
    THEN <<Missing, coords[1], coords[2], Missing, Missing>>
    ELSE LET venue_item == Head(venues)
             venue == venue_item.location
             categories == venue_item.categories
         IN  IF venue_item.id # venue_id
             THEN search_foursquare_match(Tail(venues), venue_id, coords)
             ELSE IF /\ {"formattedAddress", "lat", "lng", "country"} \subseteq DOMAIN venue
                     /\ \A k \in 1..Len(categories) : "name" \in DOMAIN categories[k]
                  THEN <<Str(Join(venue.formattedAddress)),
                         Num(venue.lat),
                         Num(venue.lng),
                         IF categories # <<>>
                         THEN Str(Join(CategoryNames(categories)))
                         ELSE Str("Uncategorized"),
                         Bool(venue.country = "United States")>>
                  ELSE search_foursquare_match(Tail(venues), venue_id, coords)

\* whether search_foursquare sends its request for this record
SearchSendsRequest(venue_info) == venue_info[2] # Missing

search_foursquare(venue_info, query) ==
    LET venue_url == venue_info[2]
        coords == <<venue_info[4], venue_info[5]>>
    IN  IF venue_url = Missing THEN Missing5
        ELSE IF query.status # 200
             THEN <<Empty, coords[1], coords[2], Empty, Empty>>
             ELSE search_foursquare_match(query.venues, LastSegment(venue_url.v), coords)

(***************************************************************************)
(* clean-and-backup-untappd-data.py: safe_dict and search_foursquare       *)
(* (fetch by id).                                                          *)
(***************************************************************************)
HasKey(dict_name, key) == key \in DOMAIN dict_name

\* mutant: a key missing in the location makes the whole row 'Unavailable'
search_foursquare_details_AllOrNothing(foursquare_url, coords, query) ==
    IF query.status = 400
    THEN <<Unavailable, coords[1], coords[2], Unavailable, Unavailable>>
    ELSE IF query.status # 200
    THEN <<Missing, coords[1], coords[2], Missing, Missing>>
    ELSE IF ~ /\ HasKey(query.response, "venue")
              /\ HasKey(query.response.venue, "location")
              /\ HasKey(query.response.venue, "categories")
              /\ {"formattedAddress", "lat", "lng", "country"}
                    \subseteq DOMAIN query.response.venue.location
              /\ \A k \in 1..Len(query.response.venue.categories) :
                    HasKey(query.response.venue.categories[k], "name")
    THEN <<Unavailable, coords[1], coords[2], Unavailable, Unavailable>>
    ELSE LET venue == query.response.venue.location
             categories == query.response.venue.categories
         IN  << Str(Join(venue.formattedAddress)),
                Num(venue.lat),
                Num(venue.lng),
                IF categories # <<>>
                THEN Str(Join(CategoryNames(categories))) ELSE Str("Uncategorized"),
                Bool(venue.country = "United States") >>

search_foursquare_details(foursquare_url, coords, query) ==
    IF query.status = 400
    THEN <<Unavailable, coords[1], coords[2], Unavailable, Unavailable>>
    ELSE IF query.status # 200
    THEN <<Missing, coords[1], coords[2], Missing, Missing>>
    ELSE IF ~ /\ HasKey(query.response, "venue")
              /\ HasKey(query.response.venue, "location")
              /\ HasKey(query.response.venue, "categories")
    THEN <<Unavailable, coords[1], coords[2], Unavailable, Unavailable>>
    ELSE LET venue == query.response.venue.location
             categories == query.response.venue.categories
             category_list ==
                 [k \in 1..Len(categories) |->
                     IF HasKey(categories[k], "name")
                     THEN categories[k].name ELSE "Unavailable"]
         IN  << IF HasKey(venue, "formattedAddress")
                THEN Str(Join(venue.formattedAddress)) ELSE Unavailable,
                IF HasKey(venue, "lat") THEN Num(venue.lat) ELSE Unavailable,
                IF HasKey(venue, "lng") THEN Num(venue.lng) ELSE Unavailable,
                IF categories # <<>>
                THEN Str(Join(category_list)) ELSE Str("Uncategorized"),
                IF HasKey(venue, "country")
                THEN Bool(venue.country = "United States") ELSE Unavailable >>

(***************************************************************************)
(* State.                                                                  *)
(*   stored       venue_locations.csv in the object store                  *)
(*   venue_dict   the registry held in memory by the running job           *)
(*   job, pc      the job that runs (or ran last) and its position         *)
(*   i            position of the for loop (venue_list in the venue-       *)
(*                location job, venue_dict.items() in the completion job)  *)
(*   foursquare_available, already_slept   locals of main                  *)
(* History of the current run, reset when a run starts:                    *)
(*   reqs         the upstream requests sent, in order                     *)
(*   last         the response received last (NoResp while a request is    *)
(*                in flight)                                               *)
(*   failed       the sources that answered with a transient status        *)
(*   intr         where a KeyboardInterrupt hit, and the registry then     *)
(*   pauses       the calls of time.sleep, each with the number of         *)
(*                requests sent before it and its length in seconds        *)
(***************************************************************************)
VARIABLES stored, venue_dict, job, pc, i, foursquare_available, already_slept,
          reqs, last, failed, intr, pauses

(***************************************************************************)
(* State of the feed jobs (update-untappd-rss-feed-data.py, the poll job,  *)
(* and parse-untappd-rss-feed-data.py, the parse job), which share the     *)
(* bucket.                                                                 *)
(*   last_update      the id in last_update.json                           *)
(*   bucket           the post objects, each named by brewery and post id  *)
(*   last_parsed      last_parsed.json: brewery -> id of the post parsed   *)
(*                    last, as the string of its digits                    *)
(*   aggregate        the rows of untappd_aggregate_data.csv               *)
(*   poll_pc, last_update_id, most_recent_id, posts, done                  *)
(*                    position and locals of the poll job; done counts     *)
(*                    the posts the for loop has handled                   *)
(*   puts             history: the post objects the current poll run has   *)
(*                    written, in order                                    *)
(*   parse_pc, last_parsed_ids, rows, brewery                              *)
(*                    position and locals of the parse job; brewery is     *)
(*                    the position of the for loop in untappd_breweries    *)
(***************************************************************************)
VARIABLES last_update, bucket, last_parsed, aggregate,
          poll_pc, last_update_id, most_recent_id, posts, done, puts,
          parse_pc, last_parsed_ids, rows, brewery

(***************************************************************************)
(* State of the specification of parse_post: the post it is given and     *)
(* what it returned.                                                       *)
(***************************************************************************)
VARIABLES post, returned

(***************************************************************************)
(* State of the specification of the two HTML parsers: the page they are   *)
(* fed and what came out of them.                                          *)
(***************************************************************************)
VARIABLES markup, scraped

(***************************************************************************)
(* State of the specification of the two search_foursquare functions: the  *)
(* record and the response one of them is called with, and the row it      *)
(* returned.                                                               *)
(***************************************************************************)
VARIABLES asked, answered

(***************************************************************************)
(* State of the specification of append_to_venues                          *)
(* (parse-untappd-rss-feed-data.py): the rows of venue_list.csv below its  *)
(* header, and the rows append_to_venues was given last.                   *)
(***************************************************************************)
VARIABLES venue_file, parsed_rows

(***************************************************************************)
(* State of the specification of create_backup                             *)
(* (clean-and-backup-untappd-data.py): the day, counted from the first     *)
(* day, the days whose Backups folder holds files, and whether the job     *)
(* has run on this day.                                                    *)
(***************************************************************************)
VARIABLES today, backups, ran

venue_vars == <<stored, venue_dict, job, pc, i, foursquare_available, already_slept,
                reqs, last, failed, intr, pauses>>

feed_vars == <<last_update, bucket, last_parsed, aggregate,
               poll_pc, last_update_id, most_recent_id, posts, done, puts,
               parse_pc, last_parsed_ids, rows, brewery>>

post_vars == <<post, returned>>

html_vars == <<markup, scraped>>

lookup_vars == <<asked, answered>>

list_vars == <<venue_file, parsed_rows>>

backup_vars == <<today, backups, ran>>

\* the state of the specifications of single functions
function_vars == <<post_vars, html_vars, lookup_vars, list_vars, backup_vars>>

vars == <<stored, venue_dict, job, pc, i, foursquare_available, already_slept,
          reqs, last, failed, intr, pauses, feed_vars, function_vars>>

NoResp == [src |-> "none", venue |-> "", status |-> 0]
NoIntr == [at |-> "none", dict |-> <<>>]

Req(src, venue) == [src |-> src, venue |-> venue]
Pause(after, secs) == [after |-> after, secs |-> secs]
Resp(src, venue, status) == [src |-> src, venue |-> venue, status |-> status]

ScrapeSrc == {"checkin", "venuepage"}
LookupSrc == {"search", "details"}

\* the statuses the code treats as "try again later"
Transient(r) ==
    \/ r.src \in ScrapeSrc /\ r.status \notin {200, 404}
    \/ r.src = "search" /\ r.status # 200
    \/ r.src = "details" /\ r.status \notin {200, 400}

NoteFailure(r) ==
    IF ~Transient(r) THEN failed
    ELSE IF r.src \in ScrapeSrc THEN failed \cup {"scrape"}
    ELSE failed \cup {"lookup"}

\* no post given to parse_post yet, no row returned
NoPost == [title |-> <<>>, summary |-> <<>>]
NotParsed == [result |-> "none"]

\* no page fed to a parser yet
NoMarkup == <<>>
NotFed == [by |-> "none"]

\* no search_foursquare called yet
NotAsked == [venue_info |-> <<>>, query |-> [status |-> 0]]
NotAnswered == [by |-> "none"]

\* the specifications of single functions before their function is called
PostIdle == post = NoPost /\ returned = NotParsed
HtmlIdle == markup = NoMarkup /\ scraped = NotFed
LookupIdle == asked = NotAsked /\ answered = NotAnswered
ListIdle == venue_file = <<>> /\ parsed_rows = <<>>
BackupIdle == today = 0 /\ backups = {} /\ ran = FALSE

\* the bucket as the jobs find it first: last_update.json and
\* last_parsed.json hold no id, the aggregate csv holds no row
FeedInit ==
    /\ last_update = 0
    /\ bucket = {}
    /\ last_parsed = <<>>
    /\ aggregate = <<>>
    /\ poll_pc = "idle"
    /\ last_update_id = 0
    /\ most_recent_id = 0
    /\ posts = <<>>
    /\ done = 0
    /\ puts = <<>>
    /\ parse_pc = "idle"
    /\ last_parsed_ids = <<>>
    /\ rows = <<>>
    /\ brewery = 1

VenueInit ==
    /\ stored = <<>>
    /\ venue_dict = <<>>
    /\ job = "none"
    /\ pc = "idle"
    /\ i = 1
    /\ foursquare_available = TRUE
    /\ already_slept = FALSE
    /\ reqs = <<>>
    /\ last = NoResp
    /\ failed = {}
    /\ intr = NoIntr
    /\ pauses = <<>>

Init ==
    /\ VenueInit
    /\ FeedInit
    /\ PostIdle
    /\ HtmlIdle
    /\ LookupIdle
    /\ ListIdle
    /\ BackupIdle

(***************************************************************************)
(* get-untappd-venue-locations.py: main.                                   *)
(***************************************************************************)
\* mutant: the interruption is looked for at the head of the loop only
TryPcs_LoopHeadOnly == {"for"}

\* the positions inside the try block
TryPcs == {"for", "checkin", "venuepage", "sleep4", "fs", "search", "sleep075", "timer"}

cur == venue_list[i][1]

\* line 314: new venue or venue is missing Untappd data
NeedsUntappd(d, venue) == ~Has(d, venue) \/ ~Truthy(Get(d, venue)[1])

\* mutant: the break of line 318 is never taken
UntappdRejected_Never(data) == FALSE

\* line 317: Untappd rejected request
UntappdRejected(data) == ~Truthy(data[1])

\* mutant: the '' test of line 324 is left out
NeedsFoursquare_IgnoresResolved(available, data) == available /\ Truthy(data[2])

\* lines 323-324: venue has Untappd data but is missing Foursquare data
NeedsFoursquare(available, data) == available /\ Truthy(data[2]) /\ In(Empty, data)

\* mutant: foursquare_available is never switched off
FoursquareRejected_Never(data) == FALSE

\* line 330: Foursquare rejected request
FoursquareRejected(data) == In(Empty, Last5(data))

\* mutant: no pause after a Foursquare call
NextAfterFoursquare_NeverPauses(slept) == "timer"

\* line 333: the pause after a Foursquare call
NextAfterFoursquare(slept) == IF slept THEN "timer" ELSE "sleep075"

StartLoc ==
    /\ pc = "idle"
    /\ job' = "loc"
    /\ venue_dict' = read_csv_to_dict(stored)
    /\ foursquare_available' = TRUE
    /\ already_slept' = FALSE
    /\ i' = 1
    /\ pc' = "for"
    /\ reqs' = <<>> /\ last' = NoResp /\ failed' = {} /\ intr' = NoIntr
    /\ pauses' = <<>>
    /\ UNCHANGED stored
    /\ UNCHANGED <<feed_vars, post_vars, html_vars, lookup_vars, list_vars, backup_vars>>

\* the head of one loop iteration, up to the checkin page request
ForNext ==
    /\ job = "loc" /\ pc = "for"
    /\ IF i > Len(venue_list)
       THEN /\ pc' = "backup"
            /\ UNCHANGED <<already_slept, reqs, last>>
       ELSE /\ already_slept' = FALSE
            /\ IF NeedsUntappd(venue_dict, cur)
               THEN /\ reqs' = Append(reqs, Req("checkin", cur))
                    /\ last' = NoResp
                    /\ pc' = "checkin"
               ELSE /\ pc' = "fs"
                    /\ UNCHANGED <<reqs, last>>
    /\ UNCHANGED <<stored, venue_dict, job, i, foursquare_available, failed, intr>>
    /\ UNCHANGED <<pauses, feed_vars, post_vars, html_vars, lookup_vars, list_vars, backup_vars>>

\* line 316 with the value search_untappd returned, and the break of line 318
UntappdReturn(row) ==
    LET data == row \o <<Empty, Empty>>
    IN  /\ venue_dict' = Put(venue_dict, cur, data)
        /\ pc' = IF UntappdRejected(data) THEN "backup" ELSE "sleep4"

OkCheckin == CHOOSE c \in CheckinResponses : NeedsVenuePage(c)
AnyPage == CHOOSE p \in VenueResponses : TRUE

CheckinResponse ==
    /\ job = "loc" /\ pc = "checkin"
    /\ \E checkin \in CheckinResponses :
          /\ last' = Resp("checkin", cur, checkin.status)
          /\ failed' = NoteFailure(Resp("checkin", cur, checkin.status))
          /\ IF NeedsVenuePage(checkin)
             THEN /\ reqs' = Append(reqs, Req("venuepage", cur))
                  /\ pc' = "venuepage"
                  /\ UNCHANGED venue_dict
             ELSE /\ UntappdReturn(search_untappd(checkin, AnyPage))
                  /\ UNCHANGED reqs
    /\ UNCHANGED <<stored, job, i, foursquare_available, already_slept, intr>>
    /\ UNCHANGED <<pauses, feed_vars, post_vars, html_vars, lookup_vars, list_vars, backup_vars>>

VenuePageResponse ==
    /\ job = "loc" /\ pc = "venuepage"
    /\ \E page \in VenueResponses :
          /\ last' = Resp("venuepage", cur, page.status)
          /\ failed' = NoteFailure(Resp("venuepage", cur, page.status))
          /\ UntappdReturn(search_untappd(OkCheckin, page))
    /\ UNCHANGED <<stored, job, i, foursquare_available, already_slept, reqs, intr>>
    /\ UNCHANGED <<pauses, feed_vars, post_vars, html_vars, lookup_vars, list_vars, backup_vars>>

\* line 320-321
Sleep4 ==
    /\ job = "loc" /\ pc = "sleep4"
    /\ already_slept' = TRUE
    /\ pauses' = Append(pauses, Pause(Len(reqs), "3..5"))
    /\ pc' = "fs"
    /\ UNCHANGED <<stored, venue_dict, job, i, foursquare_available, reqs, last, failed, intr>>
    /\ UNCHANGED <<feed_vars, post_vars, html_vars, lookup_vars, list_vars, backup_vars>>

\* lines 326-334 with the row search_foursquare returned
FoursquareReturn(row) ==
    LET data == SetLast5(Get(venue_dict, cur), row)
    IN  /\ venue_dict' = Put(venue_dict, cur, data)
        /\ foursquare_available' =
              IF FoursquareRejected(data) THEN FALSE ELSE foursquare_available
        /\ pc' = NextAfterFoursquare(already_slept)

AnyQuery == CHOOSE q \in SearchResponses : TRUE

\* line 323: the Foursquare condition, up to the search request (a record
\* whose Foursquare url is 'Missing' returns without a request)
FoursquareCheck ==
    /\ job = "loc" /\ pc = "fs"
    /\ LET data == Get(venue_dict, cur)
       IN  IF NeedsFoursquare(foursquare_available, data)
           THEN IF SearchSendsRequest(data)
                THEN /\ reqs' = Append(reqs, Req("search", cur))
                     /\ last' = NoResp
                     /\ pc' = "search"
                     /\ UNCHANGED <<venue_dict, foursquare_available>>
                ELSE /\ FoursquareReturn(search_foursquare(data, AnyQuery))
                     /\ UNCHANGED <<reqs, last>>
           ELSE /\ pc' = "timer"
                /\ UNCHANGED <<venue_dict, foursquare_available, reqs, last>>
    /\ UNCHANGED <<stored, job, i, already_slept, failed, intr>>
    /\ UNCHANGED <<pauses, feed_vars, post_vars, html_vars, lookup_vars, list_vars, backup_vars>>

SearchResponse ==
    /\ job = "loc" /\ pc = "search"
    /\ \E query \in SearchResponses :
          /\ last' = Resp("search", cur, query.status)
          /\ failed' = NoteFailure(Resp("search", cur, query.status))
          /\ FoursquareReturn(search_foursquare(Get(venue_dict, cur), query))
    /\ UNCHANGED <<stored, job, i, already_slept, reqs, intr>>
    /\ UNCHANGED <<pauses, feed_vars, post_vars, html_vars, lookup_vars, list_vars, backup_vars>>

\* line 334
Sleep075 ==
    /\ job = "loc" /\ pc = "sleep075"
    /\ pauses' = Append(pauses, Pause(Len(reqs), "0.75"))
    /\ pc' = "timer"
    /\ UNCHANGED <<stored, venue_dict, job, i, foursquare_available, already_slept,
                   reqs, last, failed, intr>>
    /\ UNCHANGED <<feed_vars, post_vars, html_vars, lookup_vars, list_vars, backup_vars>>

\* lines 282-287
backup_data(d) == write_dict_to_csv(d)

\* lines 337-339: the backup of long runs, due or not, and the end of the
\* iteration
Timer ==
    /\ job = "loc" /\ pc = "timer"
    /\ \E due \in BOOLEAN :
          stored' = IF due THEN backup_data(venue_dict) ELSE stored
    /\ i' = i + 1
    /\ pc' = "for"
    /\ UNCHANGED <<venue_dict, job, foursquare_available, already_slept,
                   reqs, last, failed, intr>>
    /\ UNCHANGED <<pauses, feed_vars, post_vars, html_vars, lookup_vars, list_vars, backup_vars>>

\* mutant: the interruption is not caught around the loop, the run ends
\* without the backup of line 344
Interrupt_SkipsBackup ==
    /\ job = "loc" /\ pc \in TryPcs
    /\ intr' = [at |-> pc, dict |-> venue_dict]
    /\ pc' = "idle"
    /\ UNCHANGED <<stored, venue_dict, job, i, foursquare_available, already_slept,
                   reqs, last, failed>>
    /\ UNCHANGED <<pauses, feed_vars, post_vars, html_vars, lookup_vars, list_vars, backup_vars>>

\* lines 340-341: KeyboardInterrupt is raised asynchronously, at whatever
\* point of the try block the main thread has reached
Interrupt ==
    /\ job = "loc" /\ pc \in TryPcs
    /\ intr' = [at |-> pc, dict |-> venue_dict]
    /\ pc' = "backup"
    /\ UNCHANGED <<stored, venue_dict, job, i, foursquare_available, already_slept,
                   reqs, last, failed>>
    /\ UNCHANGED <<pauses, feed_vars, post_vars, html_vars, lookup_vars, list_vars, backup_vars>>

\* mutant: the final backup is made only when the venue list was exhausted
FinalBackup_OnlyWhenExhausted ==
    /\ job = "loc" /\ pc = "backup"
    /\ stored' = IF i > Len(venue_list) THEN backup_data(venue_dict) ELSE stored
    /\ pc' = "idle"
    /\ UNCHANGED <<venue_dict, job, i, foursquare_available, already_slept,
                   reqs, last, failed, intr>>
    /\ UNCHANGED <<pauses, feed_vars, post_vars, html_vars, lookup_vars, list_vars, backup_vars>>

\* line 344
FinalBackup ==
    /\ job = "loc" /\ pc = "backup"
    /\ stored' = backup_data(venue_dict)
    /\ pc' = "idle"
    /\ UNCHANGED <<venue_dict, job, i, foursquare_available, already_slept,
                   reqs, last, failed, intr>>
    /\ UNCHANGED <<pauses, feed_vars, post_vars, html_vars, lookup_vars, list_vars, backup_vars>>

(***************************************************************************)
(* clean-and-backup-untappd-data.py: main.                                 *)
(***************************************************************************)
\* mutant: the test of the Foursquare url is left out
SkipRow_IgnoresUrl(venue_data) == ~In(Missing, venue_data)

\* mutant: the test for 'Missing' data is left out
SkipRow_IgnoresData(venue_data) == venue_data[2] = Missing

\* line 181: skip rows where all data is present or the Foursquare url is
\* missing
SkipRow(venue_data) == ~In(Missing, venue_data) \/ venue_data[2] = Missing

\* line 188: Foursquare rejected request (python venue_dict[venue][3])
DetailsRejected(venue_data) == venue_data[4] = Missing

StartClean ==
    /\ pc = "idle"
    /\ job' = "clean"
    /\ venue_dict' = read_csv_to_dict(stored)
    /\ i' = 1
    /\ pc' = "c_for"
    /\ foursquare_available' = TRUE
    /\ already_slept' = FALSE
    /\ reqs' = <<>> /\ last' = NoResp /\ failed' = {} /\ intr' = NoIntr
    /\ pauses' = <<>>
    /\ UNCHANGED stored
    /\ UNCHANGED <<feed_vars, post_vars, html_vars, lookup_vars, list_vars, backup_vars>>

\* one iteration of the loop of lines 177-190, or its end
CleanNext ==
    /\ job = "clean" /\ pc = "c_for"
    /\ IF i > Len(venue_dict)
       THEN /\ pc' = "c_write"
            /\ UNCHANGED <<venue_dict, i, reqs, last, failed>>
       ELSE LET venue == venue_dict[i].venue
                venue_data == venue_dict[i].data
                foursquare_url == venue_data[2]
                coords == <<venue_data[4], venue_data[5]>>
            IN  IF SkipRow(venue_data)
                THEN /\ i' = i + 1
                     /\ UNCHANGED <<venue_dict, pc, reqs, last, failed>>
                ELSE \E query \in DetailResponses :
                        LET row == search_foursquare_details(foursquare_url, coords, query)
                            data == SetLast5(venue_data, row)
                        IN  /\ reqs' = Append(reqs, Req("details", venue))
                            /\ last' = Resp("details", venue, query.status)
                            /\ failed' = NoteFailure(Resp("details", venue, query.status))
                            /\ venue_dict' = Put(venue_dict, venue, data)
                            /\ IF DetailsRejected(data)
                               THEN pc' = "c_write" /\ UNCHANGED i
                               ELSE i' = i + 1 /\ UNCHANGED pc
    /\ UNCHANGED <<stored, job, foursquare_available, already_slept, intr>>
    /\ UNCHANGED <<pauses, feed_vars, post_vars, html_vars, lookup_vars, list_vars, backup_vars>>

\* lines 193-196
CleanWrite ==
    /\ job = "clean" /\ pc = "c_write"
    /\ stored' = write_dict_to_csv(venue_dict)
    /\ pc' = "idle"
    /\ UNCHANGED <<venue_dict, job, i, foursquare_available, already_slept,
                   reqs, last, failed, intr>>
    /\ UNCHANGED <<pauses, feed_vars, post_vars, html_vars, lookup_vars, list_vars, backup_vars>>

Next ==
    \/ StartLoc
    \/ ForNext
    \/ CheckinResponse
    \/ VenuePageResponse
    \/ Sleep4
    \/ FoursquareCheck
    \/ SearchResponse
    \/ Sleep075
    \/ Timer
    \/ Interrupt
    \/ FinalBackup
    \/ StartClean
    \/ CleanNext
    \/ CleanWrite

Spec == Init /\ [][Next]_vars

(***************************************************************************)
(* The feed jobs.  Bounds: the post ids the feeds can deliver              *)
(* (FirstPostId .. FirstPostId + NumPostIds - 1, chosen to cross a power   *)
(* of ten), the entries the feeds deliver to one run, the page size of     *)
(* the listing (1000 in get_next_post_ids) and the rows the aggregate csv  *)
(* holds.                                                                  *)
(***************************************************************************)
FirstPostId == 9
NumPostIds == 3
MaxPosts == 2
MaxKeys == 2
MaxRows == 3

\* os.environ['untappd_breweries'].split(',')
untappd_breweries == <<"68", "95">>

NumBreweries == Len(untappd_breweries)

PostIds == FirstPostId..(FirstPostId + NumPostIds - 1)

\* str(n) of a post id: its decimal digits
RECURSIVE str(_)
str(n) == IF n < 10 THEN <<n>> ELSE Append(str(n \div 10), n % 10)

\* int(s) of a string of digits
RECURSIVE int(_)
int(s) == IF Len(s) = 1 THEN s[1] ELSE 10 * int(SubSeq(s, 1, Len(s) - 1)) + s[Len(s)]

\* the order of strings: a < b
RECURSIVE StrLess(_, _)
StrLess(a, b) ==
    IF b = <<>> THEN FALSE
    ELSE IF a = <<>> THEN TRUE
    ELSE IF a[1] # b[1] THEN a[1] < b[1]
    ELSE StrLess(Tail(a), Tail(b))

\* an entry of a feed: the feed it came from (title_detail.base ends in the
\* brewery) and its id (a url ending in the digits of the checkin)
Entry(base, id) == [base |-> base, id |-> id]

\* an object key f"{brewery_id}/{brewery_id}-{post_id}", by its two parts
Key(brewery_id, post_id) == [brewery |-> brewery_id, id |-> str(post_id)]

\* what one feed can deliver
FeedLists == UNION {[1..n -> {str(id) : id \in PostIds}] : n \in 0..MaxPosts}

\* what the feeds can deliver to one run: MaxPosts entries at most
RECURSIVE Delivered(_, _)
Delivered(feeds, k) == IF k > NumBreweries THEN 0 ELSE Len(feeds[k]) + Delivered(feeds, k + 1)

Feeds == {feeds \in [1..NumBreweries -> FeedLists] : Delivered(feeds, 1) <= MaxPosts}

\* lines 48-58: the entries of the feeds, brewery after brewery
RECURSIVE get_all_posts(_, _)
get_all_posts(feeds, k) ==
    IF k > NumBreweries THEN <<>>
    ELSE [n \in 1..Len(feeds[k]) |-> Entry(untappd_breweries[k], feeds[k][n])]
            \o get_all_posts(feeds, k + 1)

\* mutant: the watermark follows the post written last
MostRecent_LastWritten(most_recent, post_id) == post_id

\* line 112
MostRecent(most_recent, post_id) == IF post_id > most_recent THEN post_id ELSE most_recent

\* line 111
IsNew(post_id, last_id) == post_id > last_id

\* the run is over, its locals are gone
PollEnd ==
    /\ poll_pc' = "idle"
    /\ last_update_id' = 0 /\ most_recent_id' = 0
    /\ posts' = <<>> /\ done' = 0 /\ puts' = <<>>

\* lines 97-102
PollStart ==
    /\ poll_pc = "idle"
    /\ last_update_id' = last_update
    /\ most_recent_id' = last_update
    /\ \E feeds \in Feeds : posts' = get_all_posts(feeds, 1)
    /\ done' = 0
    /\ puts' = <<>>
    /\ poll_pc' = "for"
    /\ UNCHANGED <<last_update, bucket, last_parsed, aggregate,
                   parse_pc, last_parsed_ids, rows, brewery>>
    /\ UNCHANGED <<venue_vars, post_vars, html_vars, lookup_vars, list_vars, backup_vars>>

\* lines 105-113 with write_post_to_s3 (77-89): one iteration of the loop
PollPost ==
    /\ poll_pc = "for" /\ done < Len(posts)
    /\ LET entry == posts[done + 1]
           post_id == int(entry.id)
           post_key == Key(entry.base, post_id)
       IN  IF IsNew(post_id, last_update_id)
           THEN /\ most_recent_id' = MostRecent(most_recent_id, post_id)
                /\ bucket' = bucket \cup {post_key}
                /\ puts' = Append(puts, post_key)
           ELSE UNCHANGED <<most_recent_id, bucket, puts>>
    /\ done' = done + 1
    /\ UNCHANGED <<last_update, last_parsed, aggregate, poll_pc, last_update_id, posts,
                   parse_pc, last_parsed_ids, rows, brewery>>
    /\ UNCHANGED <<venue_vars, post_vars, html_vars, lookup_vars, list_vars, backup_vars>>

\* line 117 with set_last_update_id (67-75)
PollSet ==
    /\ poll_pc = "for" /\ done = Len(posts)
    /\ last_update' = most_recent_id
    /\ PollEnd
    /\ UNCHANGED <<bucket, last_parsed, aggregate,
                   parse_pc, last_parsed_ids, rows, brewery>>
    /\ UNCHANGED <<venue_vars, post_vars, html_vars, lookup_vars, list_vars, backup_vars>>

\* the poll job on its own: run after run
PollNext ==
    \/ PollStart
    \/ PollPost
    \/ PollSet

PollSpec == Init /\ [][PollNext]_vars

\* lines 84-94: a brewery without an entry gets ''
get_last_parsed_ids(ids) ==
    [k \in 1..NumBreweries |-> IF k \in DOMAIN ids THEN ids[k] ELSE <<>>]

\* the keys in the order the object store lists them
RECURSIVE Listed(_)
Listed(keys) ==
    IF keys = {} THEN <<>>
    ELSE LET first == CHOOSE x \in keys : \A y \in keys : x = y \/ StrLess(x.id, y.id)
         IN  <<first>> \o Listed(keys \ {first})

\* lines 104-115: up to MaxKeys keys of the brewery after start; the prefix
\* of the keys under comparison is the same, their order is the order of
\* the digits
get_next_post_ids(bk, brewery_id, start) ==
    LET after == {o \in bk : o.brewery = brewery_id /\ (start = <<>> \/ StrLess(start, o.id))}
        all == Listed(after)
    IN  SubSeq(all, 1, IF Len(all) < MaxKeys THEN Len(all) ELSE MaxKeys)

\* what the feed jobs keep of a row of parse_post: line 129 (guid) and
\* line 131 (brewery)
PostRow(post_key) == [guid |-> int(post_key.id), brewery |-> post_key.brewery]

\* the run is over, its locals are gone
ParseEnd ==
    /\ parse_pc' = "idle"
    /\ last_parsed_ids' = <<>> /\ rows' = <<>> /\ brewery' = 1

\* lines 202-205
ParseStart ==
    /\ parse_pc = "idle"
    /\ last_parsed_ids' = get_last_parsed_ids(last_parsed)
    /\ rows' = <<>>
    /\ brewery' = 1
    /\ parse_pc' = "list"
    /\ UNCHANGED <<last_update, bucket, last_parsed, aggregate,
                   poll_pc, last_update_id, most_recent_id, posts, done, puts>>
    /\ UNCHANGED <<venue_vars, post_vars, html_vars, lookup_vars, list_vars, backup_vars>>

\* lines 207-219: one listing and the parsing of what it returned, or the
\* step to the next brewery, or the end of the loop
ParseList ==
    /\ parse_pc = "list"
    /\ LET next_post_ids == get_next_post_ids(bucket, untappd_breweries[brewery],
                                              last_parsed_ids[brewery])
       IN  IF next_post_ids # <<>>
           THEN /\ rows' = rows \o [n \in 1..Len(next_post_ids) |-> PostRow(next_post_ids[n])]
                /\ last_parsed_ids' =
                      [last_parsed_ids EXCEPT ![brewery] = next_post_ids[Len(next_post_ids)].id]
                /\ UNCHANGED <<brewery, parse_pc>>
           ELSE IF brewery < NumBreweries
           THEN /\ brewery' = brewery + 1
                /\ UNCHANGED <<rows, last_parsed_ids, parse_pc>>
           ELSE IF rows # <<>>
           THEN /\ parse_pc' = "upload"
                /\ UNCHANGED <<rows, last_parsed_ids, brewery>>
           ELSE ParseEnd
    /\ UNCHANGED <<last_update, bucket, last_parsed, aggregate,
                   poll_pc, last_update_id, most_recent_id, posts, done, puts>>
    /\ UNCHANGED <<venue_vars, post_vars, html_vars, lookup_vars, list_vars, backup_vars>>

\* lines 220-229: the aggregate csv is downloaded, the rows are appended,
\* the csv is uploaded
ParseUpload ==
    /\ parse_pc = "upload"
    /\ Len(aggregate) + Len(rows) <= MaxRows
    /\ aggregate' = aggregate \o rows
    /\ parse_pc' = "cursor"
    /\ UNCHANGED <<last_update, bucket, last_parsed,
                   poll_pc, last_update_id, most_recent_id, posts, done, puts,
                   last_parsed_ids, rows, brewery>>
    /\ UNCHANGED <<venue_vars, post_vars, html_vars, lookup_vars, list_vars, backup_vars>>

\* lines 230-231 with set_last_parsed_ids (96-102)
ParseSetCursor ==
    /\ parse_pc = "cursor"
    /\ last_parsed' = last_parsed_ids
    /\ ParseEnd
    /\ UNCHANGED <<last_update, bucket, aggregate,
                   poll_pc, last_update_id, most_recent_id, posts, done, puts>>
    /\ UNCHANGED <<venue_vars, post_vars, html_vars, lookup_vars, list_vars, backup_vars>>

\* the run ends where it is: an exception of parse_post or of the object
\* store, or the time limit of the function
ParseCrash ==
    /\ parse_pc \in {"list", "upload", "cursor"}
    /\ ParseEnd
    /\ UNCHANGED <<last_update, bucket, last_parsed, aggregate,
                   poll_pc, last_update_id, most_recent_id, posts, done, puts>>
    /\ UNCHANGED <<venue_vars, post_vars, html_vars, lookup_vars, list_vars, backup_vars>>

FeedNext ==
    \/ PollStart
    \/ PollPost
    \/ PollSet
    \/ ParseStart
    \/ ParseList
    \/ ParseUpload
    \/ ParseSetCursor
    \/ ParseCrash

FeedSpec == Init /\ [][FeedNext]_vars

(***************************************************************************)
(* The feed jobs run after run: a run of one job starts when the other job *)
(* is idle, so no post object is written while a parse run lists.          *)
(***************************************************************************)
SeqFeedNext ==
    \/ parse_pc = "idle" /\ PollStart
    \/ parse_pc = "idle" /\ PollPost
    \/ parse_pc = "idle" /\ PollSet
    \/ poll_pc = "idle" /\ ParseStart
    \/ poll_pc = "idle" /\ ParseList
    \/ poll_pc = "idle" /\ ParseUpload
    \/ poll_pc = "idle" /\ ParseSetCursor

SeqFeedSpec == Init /\ [][SeqFeedNext]_vars

(***************************************************************************)
(* parse_post.  A python string is the sequence of its characters, '' is   *)
(* the empty sequence.                                                     *)
(***************************************************************************)
UpperCase ==
    <<"A", "B", "C", "D", "E", "F", "G", "H", "I", "J", "K", "L", "M", "N",
      "O", "P", "Q", "R", "S", "T", "U", "V", "W", "X", "Y", "Z">>
LowerCase ==
    <<"a", "b", "c", "d", "e", "f", "g", "h", "i", "j", "k", "l", "m", "n",
      "o", "p", "q", "r", "s", "t", "u", "v", "w", "x", "y", "z">>
Digit == <<"0", "1", "2", "3", "4", "5", "6", "7", "8", "9">>

\* str.lower()
lower(s) ==
    [k \in 1..Len(s) |->
        IF \E n \in 1..26 : UpperCase[n] = s[k]
        THEN LowerCase[CHOOSE n \in 1..26 : UpperCase[n] = s[k]]
        ELSE s[k]]

\* sub occurs in s at position k
OccursAt(s, sub, k) == k >= 1 /\ k + Len(sub) - 1 <= Len(s) /\ SubSeq(s, k, k + Len(sub) - 1) = sub

\* str.find(sub) + 1: the first position of sub in s, 0 when there is none
find(s, sub) ==
    IF \E k \in 1..Len(s) : OccursAt(s, sub, k)
    THEN CHOOSE k \in 1..Len(s) : OccursAt(s, sub, k) /\ \A n \in 1..(k - 1) : ~OccursAt(s, sub, n)
    ELSE 0

\* str.rfind(sub) + 1
rfind(s, sub) ==
    IF \E k \in 1..Len(s) : OccursAt(s, sub, k)
    THEN CHOOSE k \in 1..Len(s) : OccursAt(s, sub, k) /\ \A n \in (k + 1)..Len(s) : ~OccursAt(s, sub, n)
    ELSE 0

\* sub in s
contains(s, sub) == find(s, sub) # 0

\* s.split(sep, maxsplit), maxsplit counted down; sep is not ''
RECURSIVE str_split(_, _, _)
str_split(s, sep, maxsplit) ==
    LET k == find(s, sep)
    IN  IF k = 0 \/ maxsplit = 0 THEN <<s>>
        ELSE <<SubSeq(s, 1, k - 1)>> \o str_split(SubSeq(s, k + Len(sep), Len(s)), sep, maxsplit - 1)

\* s.split(sep): no limit on the number of splits
NoLimit(s) == Len(s)

\* s.rsplit(sep, 1)
str_rsplit1(s, sep) ==
    LET k == rfind(s, sep)
    IN  IF k = 0 THEN <<s>>
        ELSE <<SubSeq(s, 1, k - 1), SubSeq(s, k + Len(sep), Len(s))>>

\* sep.join(parts)
RECURSIVE str_join(_, _)
str_join(sep, parts) ==
    IF parts = <<>> THEN <<>>
    ELSE IF Len(parts) = 1 THEN parts[1]
    ELSE parts[1] \o sep \o str_join(sep, Tail(parts))

\* parts[:n] and parts[n:]
UpTo(parts, n) == SubSeq(parts, 1, IF n < Len(parts) THEN n ELSE Len(parts))
From(parts, n) == SubSeq(parts, (IF n < Len(parts) THEN n ELSE Len(parts)) + 1, Len(parts))

\* s.strip() of blanks
RECURSIVE lstrip(_)
lstrip(s) == IF s # <<>> /\ s[1] = " " THEN lstrip(Tail(s)) ELSE s

RECURSIVE rstrip(_)
rstrip(s) == IF s # <<>> /\ s[Len(s)] = " " THEN rstrip(SubSeq(s, 1, Len(s) - 1)) ELSE s

IsDigits(s) == \A k \in 1..Len(s) : \E n \in 1..10 : Digit[n] = s[k]

\* the value of a string of digits
RECURSIVE DigitsValue(_)
DigitsValue(s) ==
    IF s = <<>> THEN 0
    ELSE 10 * DigitsValue(SubSeq(s, 1, Len(s) - 1))
            + ((CHOOSE n \in 1..10 : Digit[n] = s[Len(s)]) - 1)

\* the digits after the point without the zeros at their end
RECURSIVE Fraction(_)
Fraction(s) == IF s # <<>> /\ s[Len(s)] = "0" THEN Fraction(SubSeq(s, 1, Len(s) - 1)) ELSE s

\* float(s) for the strings of this model (blanks, a sign, digits and one
\* point; no exponent, underscore, inf or nan among them): the number, or
\* ValueError
ValueError == [ok |-> FALSE]

Number(negative, whole, fraction) ==
    [ok |-> TRUE, negative |-> negative /\ (whole # 0 \/ fraction # <<>>),
     whole |-> whole, fraction |-> fraction]

float(s) ==
    LET t == rstrip(lstrip(s))
        signed == t # <<>> /\ t[1] \in {"-", "+"}
        u == IF signed THEN Tail(t) ELSE t
        parts == str_split(u, <<".">>, NoLimit(u))
        whole == parts[1]
        fraction == IF Len(parts) = 2 THEN parts[2] ELSE <<>>
    IN  IF /\ Len(parts) <= 2
           /\ IsDigits(whole) /\ IsDigits(fraction)
           /\ Len(whole) + Len(fraction) > 0
        THEN Number(signed /\ t[1] = "-", DigitsValue(whole), Fraction(fraction))
        ELSE ValueError

\* the separators of lines 137-139 and 145-149
At == <<" ", "a", "t", " ">>
IsDrinking ==
    <<" ", "i", "s", " ", "d", "r", "i", "n", "k", "i", "n", "g", " ">>
Blank == <<" ">>
Paren == <<"(">>
Stars == <<"/", "5", " ", "S", "t", "a", "r", "s">>

\* line 135
VictoryAtSea ==
    <<"v", "i", "c", "t", "o", "r", "y", " ", "a", "t", " ", "s", "e", "a">>
MurderAtSchruteFarm ==
    <<"m", "u", "r", "d", "e", "r", " ", "a", "t", " ", "s", "c", "h", "r",
      "u", "t", "e", " ", "f", "a", "r", "m", ".", ".", ".", "d", "e", "a",
      "t", "h", " ", "b", "y", " ", "f", "i", "r", "e">>
beer_ex_list == <<VictoryAtSea, MurderAtSchruteFarm>>

\* lines 117-120
split(strng, sep, n) ==
    LET parts == str_split(strng, sep, NoLimit(strng))
    IN  <<str_join(sep, UpTo(parts, n)), str_join(sep, From(parts, n))>>

\* line 136
LocIdx(title) ==
    IF \E k \in 1..Len(beer_ex_list) : contains(lower(title), beer_ex_list[k]) THEN 2 ELSE 1

IndexError == [result |-> "IndexError"]

Row(beer, venue, comment, rating) ==
    [result |-> "row", beer |-> beer, venue |-> venue, comment |-> comment, rating |-> rating]

\* mutant: the rating is the number before the first '/5 Stars' of the summary
Rating_OfFirstFragment(summary) ==
    LET summary_split == str_split(summary, Paren, 1)
    IN  IF Len(summary_split) = 2
        THEN LET rating == float(str_split(summary_split[2], Stars, NoLimit(summary))[1])
             IN  IF rating.ok THEN rating ELSE <<>>
        ELSE <<>>

\* lines 145-158: the rating, '' when there is none
Rating(summary) ==
    LET summary_split == str_rsplit1(summary, Paren)
    IN  IF Len(summary_split) = 2
        THEN LET rating == float(str_split(summary_split[2], Stars, NoLimit(summary))[1])
             IN  IF rating.ok THEN rating ELSE <<>>
        ELSE <<>>

\* lines 145-158: the comment
Comment(summary) == str_rsplit1(summary, Paren)[1]

\* mutant: the venue is the text up to the next ' at '
Location_UpToNextAt(s) == str_split(s[2], At, 1)[1]

\* lines 140-143
Location(s) == IF Len(s) > 1 THEN s[2] ELSE <<>>

\* lines 133-161: the beer name, the venue, the comment and the rating of
\* the row, or the exception of line 139
parse_post(p) ==
    LET title == p.title
        loc_idx == LocIdx(title)
        s == split(title, At, loc_idx)
        y == str_split(s[1], IsDrinking, NoLimit(title))
    IN  IF Len(y) < 2 THEN IndexError
        ELSE LET z == str_split(y[2], Blank, 1)
             IN  IF Len(z) < 2 THEN IndexError
                 ELSE Row(z[2], Location(s), Comment(p.summary), Rating(p.summary))

(***************************************************************************)
(* The posts given to parse_post: titles made of a user, of what follows    *)
(* ' is drinking ' and of a venue or none, and summaries made of a comment *)
(* and of an ending.                                                       *)
(***************************************************************************)
Bob == <<"b", "o", "b">>
IPA == <<"I", "P", "A">>
Pilsner == <<"P", "i", "l", "s", "n", "e", "r">>
ASculpin == <<"a", " ", "S", "c", "u", "l", "p", "i", "n">>
AnIPA == <<"a", "n", " ", "I", "P", "A">>
VictoryStout ==
    <<"V", "i", "c", "t", "o", "r", "y", " ", "a", "t", " ", "S", "e", "a",
      " ", "S", "t", "o", "u", "t">>
AVictory ==
    <<"a", " ", "V", "i", "c", "t", "o", "r", "y", " ", "a", "t", " ", "S",
      "e", "a">>
AVictoryCapitals ==
    <<"a", " ", "V", "i", "c", "t", "o", "r", "y", " ", "A", "t", " ", "S",
      "e", "a">>
Beverages == {IPA, Pilsner, ASculpin, AnIPA, VictoryStout, AVictory, AVictoryCapitals}

Taproom == <<"T", "a", "p", "r", "o", "o", "m">>
TheBrewery == <<"T", "h", "e", " ", "B", "r", "e", "w", "e", "r", "y">>
BarAtSea == <<"B", "a", "r", " ", "a", "t", " ", "S", "e", "a">>
Venues == {Taproom, TheBrewery, BarAtSea}

\* an entry that is no check-in
EarnedBadge ==
    <<"b", "o", "b", " ", "e", "a", "r", "n", "e", "d", " ", "a", " ", "b",
      "a", "d", "g", "e", " ", "a", "t", " ", "T", "a", "p", "r", "o", "o",
      "m">>

Titles ==
    {Bob \o IsDrinking \o b : b \in Beverages}
       \cup {Bob \o IsDrinking \o b \o At \o v : b \in Beverages, v \in Venues}
       \cup {EarnedBadge}

GreatStuff == <<"G", "r", "e", "a", "t", " ", "s", "t", "u", "f", "f", " ">>
NoRatingHere ==
    <<"N", "o", " ", "r", "a", "t", "i", "n", "g", " ", "h", "e", "r", "e">>
NiceReally ==
    <<"N", "i", "c", "e", " ", "(", "r", "e", "a", "l", "l", "y", ")", " ">>
Comments == {<<>>, GreatStuff, NoRatingHere, NiceReally}

Stars45 == <<"(", "4", ".", "5", "/", "5", " ", "S", "t", "a", "r", "s", ")">>
Stars4 == <<"(", "4", "/", "5", " ", "S", "t", "a", "r", "s", ")">>
Stars375 ==
    <<"(", "3", ".", "7", "5", "0", "/", "5", " ", "S", "t", "a", "r", "s",
      ")">>
StarsNone ==
    <<"(", "a", "b", "c", "/", "5", " ", "S", "t", "a", "r", "s", ")">>
Aside == <<"(", "p", "r", "i", "c", "e", "y", ")">>
Open3 == <<"(", "3">>
StarsThenText ==
    <<"(", "4", ".", "5", "/", "5", " ", "S", "t", "a", "r", "s", ")", " ",
      "y", "u", "m">>
Endings == {<<>>, Stars45, Stars4, Stars375, StarsNone, Aside, Open3, StarsThenText}

Summaries == {c \o e : c \in Comments, e \in Endings}

Posts == [title : Titles, summary : Summaries]

PostInit ==
    /\ VenueInit
    /\ FeedInit
    /\ post \in Posts
    /\ returned = NotParsed
    /\ HtmlIdle
    /\ LookupIdle
    /\ ListIdle
    /\ BackupIdle

\* line 216: the post is parsed
ParsePost ==
    /\ returned = NotParsed
    /\ returned' = parse_post(post)
    /\ UNCHANGED <<post, venue_vars, feed_vars, html_vars, lookup_vars, list_vars, backup_vars>>

PostNext == ParsePost

PostSpec == PostInit /\ [][PostNext]_vars

(***************************************************************************)
(* get-untappd-venue-locations.py: CheckinHTMLParser and VenueHTMLParser.  *)
(* A page is the sequence of tokens html.parser hands to the handlers: a   *)
(* start tag with its attribute list (pairs <<name, value>>, in document   *)
(* order), an end tag, or character data.  Bound: MaxTokens tokens per     *)
(* page.                                                                   *)
(***************************************************************************)
MaxTokens == 4

StartTag(tag, attributes) == [type |-> "start", tag |-> tag, attributes |-> attributes]
EndTag(tag) == [type |-> "end", tag |-> tag, attributes |-> <<>>]
Data == [type |-> "data", tag |-> "", attributes |-> <<>>]

LocationP == StartTag("p", << <<"class", "location">> >>)
PlainP == StartTag("p", <<>>)
VenueLink == StartTag("a", << <<"href", "/v/venue/1">> >>)
NamedAnchor == StartTag("a", << <<"name", "top">> >>)

VenueSocialDiv == StartTag("div", << <<"class", "venue-social">> >>)
PlainDiv == StartTag("div", <<>>)
FoursquareLink ==
    StartTag("a", << <<"class", "fs track-click">>,
                     <<"href", "https://foursquare.com/v/id1?ref=untappd">> >>)
FoursquareLinkNoHref == StartTag("a", << <<"class", "fs track-click">> >>)
TwitterLink ==
    StartTag("a", << <<"class", "tw track-click">>, <<"href", "https://twitter.com/v1">> >>)
LatitudeMeta ==
    StartTag("meta", << <<"property", "place:location:latitude">>, <<"content", "40.1">> >>)
LongitudeMeta ==
    StartTag("meta", << <<"property", "place:location:longitude">>, <<"content", "-75.1">> >>)
LatitudeMetaNoContent == StartTag("meta", << <<"property", "place:location:latitude">> >>)

CheckinTokens == {LocationP, PlainP, VenueLink, NamedAnchor, EndTag("p"), EndTag("a"), Data}
VenueTokens ==
    {VenueSocialDiv, PlainDiv, FoursquareLink, FoursquareLinkNoHref, TwitterLink,
     LatitudeMeta, LongitudeMeta, LatitudeMetaNoContent, EndTag("div"), Data}

Pages(tokens) == UNION {[1..n -> tokens] : n \in 0..MaxTokens}

\* python: dict(attributes), the last pair of a name wins
dict(attributes) ==
    [name \in {attributes[k][1] : k \in 1..Len(attributes)} |->
        attributes[CHOOSE k \in 1..Len(attributes) :
                      /\ attributes[k][1] = name
                      /\ \A j \in (k + 1)..Len(attributes) : attributes[j][1] # name][2]]

\* python: href.split('?')[0]
BeforeQuery(href) ==
    IF href = "https://foursquare.com/v/id1?ref=untappd" THEN FoursquareUrl ELSE href

\* lines 57-60
CheckinParser == [found_p |-> FALSE, url |-> <<>>]

\* lines 67-70: the for loop over the attributes of a 'p' tag
IsLocation(attributes) ==
    \E k \in 1..Len(attributes) : attributes[k] = <<"class", "location">>

\* lines 72-75: the for loop over the attributes of an 'a' tag, which stops
\* at the first href
Hrefs(attributes) == SelectSeq(attributes, LAMBDA pair : pair[1] = "href")

\* mutant: every 'a' tag with an href is a venue link, inside a location
\* paragraph or not
CheckinStart_AnyLink(self, tag, attributes) ==
    IF tag = "a" /\ Hrefs(attributes) # <<>>
    THEN [self EXCEPT !.url = Append(@, Hrefs(attributes)[1][2])]
    ELSE self

\* lines 61-75
CheckinStart(self, tag, attributes) ==
    IF tag # "a" /\ tag # "p" THEN self
    ELSE IF ~self.found_p /\ tag = "p"
         THEN IF IsLocation(attributes) THEN [self EXCEPT !.found_p = TRUE] ELSE self
         ELSE IF self.found_p /\ tag = "a" /\ Hrefs(attributes) # <<>>
              THEN [self EXCEPT !.url = Append(@, Hrefs(attributes)[1][2])]
              ELSE self

\* lines 76-78
CheckinEnd(self, tag) == IF tag = "p" THEN [self EXCEPT !.found_p = FALSE] ELSE self

CheckinToken(self, token) ==
    IF token.type = "start" THEN CheckinStart(self, token.tag, token.attributes)
    ELSE IF token.type = "end" THEN CheckinEnd(self, token.tag)
    ELSE self

\* parser.feed of line 195
RECURSIVE CheckinFeed(_, _)
CheckinFeed(self, page) ==
    IF page = <<>> THEN self ELSE CheckinFeed(CheckinToken(self, Head(page)), Tail(page))

\* lines 85-89; raised is the exception that left the parser, if any
VenueParser == [found_div |-> FALSE, urls |-> <<>>, coords |-> <<>>, raised |-> "none"]

CoordProperties == {"place:location:latitude", "place:location:longitude"}

\* lines 90-112; a key that attributes_dict lacks is a KeyError
VenueStart(self, tag, attributes) ==
    LET attributes_dict == dict(attributes)
    IN  IF tag \notin {"div", "a", "meta"} THEN self
        ELSE IF tag = "meta" /\ "property" \in DOMAIN attributes_dict
             THEN IF attributes_dict["property"] \in CoordProperties
                  THEN IF "content" \in DOMAIN attributes_dict
                       THEN [self EXCEPT !.coords = Append(@, attributes_dict["content"])]
                       ELSE [self EXCEPT !.raised = "KeyError"]
                  ELSE self
        ELSE IF "class" \notin DOMAIN attributes_dict THEN self
        ELSE IF ~self.found_div /\ tag = "div" /\ attributes_dict["class"] = "venue-social"
             THEN [self EXCEPT !.found_div = TRUE]
        ELSE IF self.found_div /\ tag = "a" /\ attributes_dict["class"] = "fs track-click"
             THEN IF "href" \in DOMAIN attributes_dict
                  THEN [self EXCEPT !.urls = Append(@, BeforeQuery(attributes_dict["href"]))]
                  ELSE [self EXCEPT !.raised = "KeyError"]
        ELSE self

\* lines 113-115
VenueEnd(self, tag) == IF tag = "div" THEN [self EXCEPT !.found_div = FALSE] ELSE self

VenueToken(self, token) ==
    IF token.type = "start" THEN VenueStart(self, token.tag, token.attributes)
    ELSE IF token.type = "end" THEN VenueEnd(self, token.tag)
    ELSE self

\* parser.feed of line 213: an exception of a handler ends the feed
RECURSIVE VenueFeed(_, _)
VenueFeed(self, page) ==
    IF page = <<>> \/ self.raised # "none" THEN self
    ELSE VenueFeed(VenueToken(self, Head(page)), Tail(page))

\* lines 211-222 for a venue page answered with status 200 and this
\* markup: the row search_untappd returns, or the exception that leaves it
\* (coords[1] of a one-element list is an IndexError)
ScrapedRow(page) ==
    LET parser == VenueFeed(VenueParser, page)
    IN  IF parser.raised # "none" THEN [raised |-> parser.raised, row |-> <<>>]
        ELSE IF parser.urls # <<>> /\ Len(parser.coords) = 1
             THEN [raised |-> "IndexError", row |-> <<>>]
             ELSE [raised |-> "none",
                   row |-> search_untappd(OkCheckin,
                                          [status |-> 200, urls |-> parser.urls,
                                           coords |-> parser.coords])]

HtmlInit ==
    /\ VenueInit
    /\ FeedInit
    /\ PostIdle
    /\ markup \in Pages(CheckinTokens) \cup Pages(VenueTokens)
    /\ scraped = NotFed
    /\ LookupIdle
    /\ ListIdle
    /\ BackupIdle

\* lines 194-195
FeedCheckinParser ==
    /\ scraped = NotFed
    /\ scraped' = [by |-> "CheckinHTMLParser", raised |-> "none",
                   parser |-> CheckinFeed(CheckinParser, markup)]
    /\ UNCHANGED <<markup, venue_vars, feed_vars, post_vars, lookup_vars, list_vars, backup_vars>>

\* lines 212-213
FeedVenueParser ==
    /\ scraped = NotFed
    /\ LET parser == VenueFeed(VenueParser, markup)
       IN  scraped' = [by |-> "VenueHTMLParser", raised |-> parser.raised, parser |-> parser]
    /\ UNCHANGED <<markup, venue_vars, feed_vars, post_vars, lookup_vars, list_vars, backup_vars>>

\* lines 211-222
ScrapeVenuePage ==
    /\ scraped = NotFed
    /\ LET result == ScrapedRow(markup)
       IN  scraped' = [by |-> "search_untappd", raised |-> result.raised, row |-> result.row]
    /\ UNCHANGED <<markup, venue_vars, feed_vars, post_vars, lookup_vars, list_vars, backup_vars>>

HtmlNext ==
    \/ FeedCheckinParser
    \/ FeedVenueParser
    \/ ScrapeVenuePage

HtmlSpec == HtmlInit /\ [][HtmlNext]_vars

(***************************************************************************)
(* get-untappd-venue-locations.py: the venue-location run on responses     *)
(* with status 200 that its code does not expect.  main catches            *)
(* KeyboardInterrupt only (lines 340-341): any other exception raised      *)
(* under search_untappd or search_foursquare leaves main before line 344.  *)
(* The run is then at "raised".                                            *)
(***************************************************************************)
\* venue pages on which lines 211-222 raise
MalformedPages ==
    { <<LatitudeMetaNoContent>>,
      <<VenueSocialDiv, FoursquareLinkNoHref>>,
      <<VenueSocialDiv, FoursquareLink, LatitudeMeta>> }

\* search payloads: one without data['response']['venues'], one whose
\* candidate has no 'categories'
MalformedSearches ==
    { [status |-> 200],
      [status |-> 200, venues |-> << [id |-> "id1", location |-> LocFull] >>] }

\* lines 253-278: whether the loop over the candidates raises; a KeyError
\* of lines 255, 258 and 259 is outside the try of line 261
RECURSIVE candidates_raise(_, _)
candidates_raise(venues, venue_id) ==
    IF venues = <<>> THEN FALSE
    ELSE LET venue_item == Head(venues)
         IN  IF "id" \notin DOMAIN venue_item THEN TRUE
             ELSE IF venue_item.id # venue_id
                  THEN candidates_raise(Tail(venues), venue_id)
                  ELSE IF {"location", "categories"} \subseteq DOMAIN venue_item
                       THEN IF /\ {"formattedAddress", "lat", "lng", "country"}
                                     \subseteq DOMAIN venue_item.location
                               /\ \A k \in 1..Len(venue_item.categories) :
                                     "name" \in DOMAIN venue_item.categories[k]
                            THEN FALSE
                            ELSE candidates_raise(Tail(venues), venue_id)
                       ELSE TRUE

\* lines 250-278: whether search_foursquare raises on a response
search_foursquare_raises(venue_info, query) ==
    /\ venue_info[2] # Missing
    /\ query.status = 200
    /\ IF "venues" \in DOMAIN query
       THEN candidates_raise(query.venues, LastSegment(venue_info[2].v))
       ELSE TRUE

\* line 316: the exception of search_untappd passes through main
VenuePageMalformed ==
    /\ job = "loc" /\ pc = "venuepage"
    /\ \E page \in MalformedPages :
          /\ ScrapedRow(page).raised # "none"
          /\ last' = Resp("venuepage", cur, 200)
          /\ pc' = "raised"
    /\ UNCHANGED <<stored, venue_dict, job, i, foursquare_available, already_slept,
                   reqs, failed, intr>>
    /\ UNCHANGED <<pauses, feed_vars, post_vars, html_vars, lookup_vars, list_vars, backup_vars>>

\* line 326: the exception of search_foursquare passes through main
SearchMalformed ==
    /\ job = "loc" /\ pc = "search"
    /\ \E query \in MalformedSearches :
          /\ search_foursquare_raises(Get(venue_dict, cur), query)
          /\ last' = Resp("search", cur, 200)
          /\ pc' = "raised"
    /\ UNCHANGED <<stored, venue_dict, job, i, foursquare_available, already_slept,
                   reqs, failed, intr>>
    /\ UNCHANGED <<pauses, feed_vars, post_vars, html_vars, lookup_vars, list_vars, backup_vars>>

FaultNext ==
    \/ Next
    \/ VenuePageMalformed
    \/ SearchMalformed

FaultSpec == Init /\ [][FaultNext]_vars

(***************************************************************************)
(* The two search_foursquare functions on the payloads of a lookup         *)
(* response.  Bound: MaxCandidates candidates in a search response.        *)
(***************************************************************************)
MaxCandidates == 2

\* a category without 'name'
Unnamed == [id |-> "c1"]

Locations == {LocFull, LocMoved, LocPrivate, LocNoAddress, LocNoCountry}
CategoryLists == {<<>>, <<Bar>>, <<Unnamed>>, <<Bar, Unnamed>>}
Candidates ==
    {Venue(id, location, categories) :
        id \in {"id1", "id2"}, location \in Locations, categories \in CategoryLists}

\* the responses of the search request
Queries ==
    {[status |-> 503, venues |-> <<>>]}
       \cup {[status |-> 200, venues |-> venues] :
                venues \in UNION {[1..n -> Candidates] : n \in 0..MaxCandidates}}

\* rows of the registry as search_untappd leaves them (line 316)
ScrapedRecord ==
    <<Str(UntappdVenueUrl), Str(FoursquareUrl), Empty,
      Str(ScrapedCoords[1]), Str(ScrapedCoords[2]), Empty, Empty>>
MissingRecord == Missing5 \o <<Empty, Empty>>

\* and as search_foursquare leaves them when no candidate matched (line 280)
UnmatchedRecord ==
    SetLast5(ScrapedRecord,
             <<Missing, Str(ScrapedCoords[1]), Str(ScrapedCoords[2]), Missing, Missing>>)

\* the response of the details request that describes the first candidate
\* of a search response
DetailsOf(query) ==
    [status |-> query.status,
     response |->
        IF query.venues = <<>> THEN <<>>
        ELSE [venue |-> [location |-> query.venues[1].location,
                         categories |-> query.venues[1].categories]]]

LookupInit ==
    /\ VenueInit
    /\ FeedInit
    /\ PostIdle
    /\ HtmlIdle
    /\ asked \in [venue_info : {ScrapedRecord, MissingRecord, UnmatchedRecord},
                  query : Queries]
    /\ answered = NotAnswered
    /\ ListIdle
    /\ BackupIdle

\* get-untappd-venue-locations.py, lines 323-329
SearchByName ==
    /\ answered = NotAnswered
    /\ NeedsFoursquare(TRUE, asked.venue_info)
    /\ answered' = [by |-> "search",
                    row |-> search_foursquare(asked.venue_info, asked.query)]
    /\ UNCHANGED <<asked, venue_vars, feed_vars, post_vars, html_vars, list_vars, backup_vars>>

\* clean-and-backup-untappd-data.py, lines 180-186
FetchById ==
    /\ answered = NotAnswered
    /\ ~SkipRow(asked.venue_info)
    /\ answered' = [by |-> "details",
                    row |-> search_foursquare_details(
                               asked.venue_info[2],
                               <<asked.venue_info[4], asked.venue_info[5]>>,
                               DetailsOf(asked.query))]
    /\ UNCHANGED <<asked, venue_vars, feed_vars, post_vars, html_vars, list_vars, backup_vars>>

LookupNext ==
    \/ SearchByName
    \/ FetchById

LookupSpec == LookupInit /\ [][LookupNext]_vars

(***************************************************************************)
(* parse-untappd-rss-feed-data.py: append_to_venues.  venue_list.csv is    *)
(* the sequence of its rows <<venue name, link>> below the header; of the  *)
(* rows of a parse run only the venue (row[4]) and the link of the post    *)
(* (row[8]) are read.  Bound: MaxNewRows rows per run.                     *)
(***************************************************************************)
MaxNewRows == 2

NewRow(venue, link) == [venue |-> venue, link |-> link]

\* '' is the venue of a post without location
ParsedVenues == {"", "Taproom", "The Brewery"}
PostLinks == {"https://untappd.com/user/bob/checkin/1", "https://untappd.com/user/bob/checkin/2"}

\* the rows of a run that has rows (line 219)
ParsedRows ==
    UNION {[1..n -> {NewRow(venue, link) : venue \in ParsedVenues, link \in PostLinks}] :
              n \in 1..MaxNewRows}

\* line 174: the names of the venues in the file
ExistingNames(file) == [k \in 1..Len(file) |-> file[k][1]]

\* line 177
new_venues(post_rows) ==
    LET with_venue == SelectSeq(post_rows, LAMBDA row : row.venue # "")
    IN  [k \in 1..Len(with_venue) |-> <<with_venue[k].venue, with_venue[k].link>>]

Contains(list, x) == \E k \in 1..Len(list) : list[k] = x

\* mutant: only the names in the file are looked at
IsNewVenue_IgnoresAppended(name, names, new_venue_names) == ~Contains(names, name)

\* line 182
IsNewVenue(name, names, new_venue_names) ==
    ~Contains(names, name) /\ ~Contains(new_venue_names, name)

\* lines 179-184: the loop, with new_venue_names the names of new_rows
RECURSIVE new_rows(_, _, _)
new_rows(venues, names, appended) ==
    IF venues = <<>> THEN appended
    ELSE IF IsNewVenue(Head(venues)[1], names, ExistingNames(appended))
         THEN new_rows(Tail(venues), names, Append(appended, Head(venues)))
         ELSE new_rows(Tail(venues), names, appended)

\* lines 169-190
append_to_venues(file, post_rows) ==
    file \o new_rows(new_venues(post_rows), ExistingNames(file), <<>>)

\* venue_list.csv holds its header only
ListInit ==
    /\ VenueInit
    /\ FeedInit
    /\ PostIdle
    /\ HtmlIdle
    /\ LookupIdle
    /\ ListIdle
    /\ BackupIdle

\* lines 219-230 of a parse run, the only writer of venue_list.csv
AppendToVenues ==
    /\ \E post_rows \in ParsedRows :
          /\ venue_file' = append_to_venues(venue_file, post_rows)
          /\ parsed_rows' = post_rows
    /\ UNCHANGED <<venue_vars, feed_vars, post_vars, html_vars, lookup_vars, backup_vars>>

ListNext == AppendToVenues

ListSpec == ListInit /\ [][ListNext]_vars

(***************************************************************************)
(* clean-and-backup-untappd-data.py: create_backup.  Days are counted      *)
(* from the first day; the object Backups/<day>/<file> is the pair         *)
(* <<day, file>>.  Bound: MaxDay days pass.                                *)
(***************************************************************************)
MaxDay == 10

\* line 147
file_list ==
    {"last_parsed.json", "last_update.json", "untappd_aggregate_data.csv",
     "venue_list.csv", "venue_locations.csv"}

\* lines 144-146: the day is last_week (days = 7) or last_week2 (days = 8)
\* of today
DaysBefore(day, now, days) == day + days = now

\* lines 156-159
Deleted(day, now) == DaysBefore(day, now, 7) \/ DaysBefore(day, now, 8)

\* lines 142-159
create_backup(objects, now) ==
    {o \in objects \cup {<<now, file>> : file \in file_list} : ~Deleted(o[1], now)}

BackupInit ==
    /\ VenueInit
    /\ FeedInit
    /\ PostIdle
    /\ HtmlIdle
    /\ LookupIdle
    /\ ListIdle
    /\ BackupIdle

\* a day passes, with or without a run of the job on it
NextDay ==
    /\ today < MaxDay
    /\ today' = today + 1
    /\ ran' = FALSE
    /\ UNCHANGED <<backups, venue_vars, feed_vars, post_vars, html_vars, lookup_vars, list_vars>>

\* line 198: the job runs and reaches its backup
CreateBackup ==
    /\ backups' = create_backup(backups, today)
    /\ ran' = TRUE
    /\ UNCHANGED <<today, venue_vars, feed_vars, post_vars, html_vars, lookup_vars, list_vars>>

BackupNext ==
    \/ NextDay
    \/ CreateBackup

BackupSpec == BackupInit /\ [][BackupNext]_vars

(***************************************************************************)
(* Vocabulary of the properties.                                           *)
(***************************************************************************)
Names == {venue_list[k][1] : k \in 1..NumVenues}
AddressCols == 3..7

CsvRow(data) == [c \in 1..Len(data) |-> ToCsv(data[c])]

\* the record of a venue as the csv would hold it; a venue without a record
\* has nothing resolved
RowOf(d, venue) ==
    IF Has(d, venue) THEN CsvRow(Get(d, venue)) ELSE Empty5 \o <<Empty, Empty>>

Unresolved(cell) == cell = Empty
PermanentlyUnavailable(cell) == cell \in {Missing, Unavailable}
Resolved(cell) == ~Unresolved(cell) /\ ~PermanentlyUnavailable(cell)
FullyResolved(data) == \A c \in 1..Len(data) : Resolved(data[c])

\* a step of a running job (not the start of a run)
InRun == pc # "idle"

\* the step sends a request / a request of these sources
Sends == Len(reqs') = Len(reqs) + 1
SendsOf(srcs) == Sends /\ reqs'[Len(reqs')].src \in srcs
SendsFor(venue) == Sends /\ reqs'[Len(reqs')].venue = venue

\* the step receives a response
Receives == last' # last /\ last' # NoResp

RequestsFor(venue) == {k \in 1..Len(reqs) : reqs[k].venue = venue}

UniqueNames(d) == \A j, k \in 1..Len(d) : d[j].venue = d[k].venue => j = k

(***************************************************************************)
(* C1: field monotonicity.  As claimed: in every step of a run of either   *)
(* job, for every venue, a field among address, latitude, longitude,       *)
(* categories and country-match that is Resolved or PermanentlyUnavailable *)
(* keeps its stored value.                                                 *)
(***************************************************************************)
C1_FieldMonotone ==
    [][InRun =>
         \A venue \in Names : \A c \in AddressCols :
            ~Unresolved(RowOf(venue_dict, venue)[c])
               => RowOf(venue_dict', venue)[c] = RowOf(venue_dict, venue)[c]]_vars

\* a record no step of the job may touch any more: the venue-location job
\* looks for '' cells, the completion job for 'Missing' cells of a record
\* whose Foursquare url is not 'Missing'
Closed(j, data) ==
    IF j = "loc" THEN ~In(Empty, data)
    ELSE ~In(Missing, data) \/ data[2] = Missing

(***************************************************************************)
(* C1 as amended: monotonicity holds per record, not per field.  A step    *)
(* of a run never changes a record that the running job considers closed   *)
(* (no '' cell for the venue-location job; no 'Missing' cell, or a         *)
(* 'Missing' Foursquare url, for the completion job), never removes a      *)
(* record, and never changes the two urls of a record whose Untappd url    *)
(* is set; the persisted registry never loses a row and never changes a    *)
(* row without '' and 'Missing' cells.                                     *)
(***************************************************************************)
C1_RecordMonotone ==
    /\ [][InRun =>
            \A venue \in Names :
               Has(venue_dict, venue) =>
                  /\ Has(venue_dict', venue)
                  /\ Closed(job, Get(venue_dict, venue))
                        => RowOf(venue_dict', venue) = RowOf(venue_dict, venue)
                  /\ Truthy(Get(venue_dict, venue)[1])
                        => SubSeq(RowOf(venue_dict', venue), 1, 2)
                              = SubSeq(RowOf(venue_dict, venue), 1, 2)]_vars
    /\ [][\A venue \in Names :
            Has(stored, venue) =>
               /\ Has(stored', venue)
               /\ (~In(Empty, Get(stored, venue)) /\ ~In(Missing, Get(stored, venue)))
                     => Get(stored', venue) = Get(stored, venue)]_vars

\* a completion run has gone over the whole registry, sent requests for some
\* venue, and left alone a venue whose persisted row was closed
C1_Witness ==
    /\ job = "clean" /\ pc = "c_write" /\ i > Len(venue_dict)
    /\ reqs # <<>>
    /\ \E venue \in Names :
          /\ Has(stored, venue)
          /\ ~In(Empty, Get(stored, venue)) /\ ~In(Missing, Get(stored, venue))
          /\ RequestsFor(venue) = {}
          /\ Get(venue_dict, venue) = Get(stored, venue)

(***************************************************************************)
(* C2: lookup circuit breaker.  As claimed: in a run of either job, once   *)
(* a lookup-API request (search by name, fetch by id) was answered with a  *)
(* transient status, no step of that run sends another lookup-API request. *)
(***************************************************************************)
C2_NoLookupAfterTransient ==
    [][(InRun /\ "lookup" \in failed) => ~SendsOf(LookupSrc)]_vars

(***************************************************************************)
(* C3: what a transient lookup failure does to the venue-location run.     *)
(* As claimed: after the failure the run processes no further venue, that  *)
(* is, it sends no request of any kind, and no Unresolved field of any     *)
(* venue changes any more.                                                 *)
(***************************************************************************)
C3_LoopEndsAtLookupFailure ==
    [][(InRun /\ job = "loc" /\ "lookup" \in failed) =>
          /\ ~Sends
          /\ \A venue \in Names : \A c \in 1..7 :
                Unresolved(RowOf(venue_dict, venue)[c])
                   => Unresolved(RowOf(venue_dict', venue)[c])]_vars

(***************************************************************************)
(* C3 as amended: a transient lookup failure stops the lookup API only.    *)
(* The failed search leaves address, categories and country-match of its   *)
(* venue Unresolved and switches foursquare_available off; from then on    *)
(* the run sends no lookup-API request, categories and country-match that  *)
(* are Unresolved stay Unresolved for every venue, and the final backup    *)
(* persists the registry as it is; the loop itself goes on with the later  *)
(* venues and scrapes them.                                                *)
(***************************************************************************)
C3_LookupFailureStopsLookupOnly ==
    /\ [][(Receives /\ last'.src = "search" /\ Transient(last')) =>
             /\ ~foursquare_available'
             /\ \A c \in {3, 6, 7} : Unresolved(RowOf(venue_dict', last'.venue)[c])
             /\ pc' \in {"sleep075", "timer"}]_vars
    /\ [][(InRun /\ job = "loc" /\ "lookup" \in failed) =>
             /\ ~foursquare_available /\ ~foursquare_available'
             /\ ~SendsOf(LookupSrc)
             /\ \A venue \in Names : \A c \in {6, 7} :
                   Unresolved(RowOf(venue_dict, venue)[c])
                      => Unresolved(RowOf(venue_dict', venue)[c])
             /\ pc = "backup" => stored' = write_dict_to_csv(venue_dict)]_vars

\* a finished run in which the search for the first venue failed and the
\* second venue was scraped afterwards: its urls are persisted, its
\* categories and country-match are Unresolved
C3_Witness ==
    /\ job = "loc" /\ pc = "idle" /\ "lookup" \in failed /\ intr = NoIntr
    /\ \E k \in 1..Len(reqs) : \E m \in 1..Len(reqs) :
          /\ k < m
          /\ reqs[k].src = "search" /\ reqs[m].src = "venuepage"
          /\ reqs[k].venue # reqs[m].venue
          /\ Has(stored, reqs[m].venue)
          /\ Truthy(Get(stored, reqs[m].venue)[2])
          /\ Unresolved(Get(stored, reqs[m].venue)[6])
          /\ Unresolved(Get(stored, reqs[m].venue)[7])
          /\ Unresolved(Get(stored, reqs[k].venue)[3])

(***************************************************************************)
(* C4: scrape circuit breaker.  Once a scrape request of the venue-        *)
(* location run was answered with a status other than 200 and 404, the     *)
(* run is at its final backup: the only step left persists the registry    *)
(* as it is; no request is sent, no record changes and the loop does not   *)
(* advance.                                                                *)
(***************************************************************************)
C4_ScrapeFailureEndsRun ==
    [][(InRun /\ job = "loc" /\ "scrape" \in failed) =>
          /\ pc = "backup" /\ pc' = "idle"
          /\ reqs' = reqs /\ i' = i /\ venue_dict' = venue_dict
          /\ stored' = write_dict_to_csv(venue_dict)]_vars

\* the scrape of the first venue failed: the run is over, the second venue
\* was never requested and has no record
C4_Witness ==
    /\ job = "loc" /\ pc = "idle" /\ "scrape" \in failed
    /\ i = 1
    /\ RequestsFor(venue_list[2][1]) = {}
    /\ ~Has(stored, venue_list[2][1])
    /\ RowOf(stored, venue_list[1][1]) = Empty5 \o <<Empty, Empty>>

(***************************************************************************)
(* C5: a transient failure changes no state.  As claimed: the step that    *)
(* receives a transient status (scrape, search by name or fetch by id)     *)
(* leaves every field of the venue's record as it was; a venue without a   *)
(* record gets one whose fields are all Unresolved.                        *)
(***************************************************************************)
C5_TransientNoChange ==
    [][(Receives /\ Transient(last')) =>
          RowOf(venue_dict', last'.venue) = RowOf(venue_dict, last'.venue)]_vars

(***************************************************************************)
(* C6: PermanentlyUnavailable fields are not retried.  As claimed: no step *)
(* of a run of either job sends an upstream request for a venue whose      *)
(* record holds a field marked 'Missing' or 'Unavailable'.                 *)
(***************************************************************************)
C6_NoRequestForUnavailable ==
    [][InRun =>
          \A venue \in Names :
             (\E c \in AddressCols : PermanentlyUnavailable(RowOf(venue_dict, venue)[c]))
                => ~SendsFor(venue)]_vars

(***************************************************************************)
(* C6 as amended: 'Missing' stops the venue-location job only.  The        *)
(* venue-location job sends a scrape request only for a venue without an   *)
(* Untappd url and a search request only for a record with a '' field and  *)
(* a Foursquare url that is set and not 'Missing'; the completion job      *)
(* sends its fetch-by-id request exactly for the records with a 'Missing'  *)
(* field whose Foursquare url is not 'Missing'.  So the venue-location job *)
(* never sends a request for a record that holds 'Missing', a record that  *)
(* is 'Missing' as a whole is never requested by either job, and           *)
(* 'Unavailable' alone never causes a request; 'Missing' address,          *)
(* categories and country-match next to a Foursquare url are retried by    *)
(* every completion run.                                                   *)
(***************************************************************************)
C6_RequestsOnlyForOpenRecords ==
    [][InRun =>
          \A venue \in Names :
             SendsFor(venue) =>
                LET src == reqs'[Len(reqs')].src
                    row == RowOf(venue_dict, venue)
                IN  /\ src = "checkin" => (job = "loc" /\ Unresolved(row[1]))
                    /\ src = "venuepage" => (job = "loc" /\ Unresolved(row[1]))
                    /\ src = "search" =>
                          /\ job = "loc"
                          /\ In(Empty, row)
                          /\ ~Unresolved(row[2]) /\ row[2] # Missing
                          /\ ~In(Missing, row)
                    /\ src = "details" =>
                          /\ job = "clean"
                          /\ In(Missing, row) /\ row[2] # Missing]_vars

\* a completion run went over a record that is 'Missing' as a whole and one
\* with 'Unavailable' fields without a request, and the persisted registry
\* holds them unchanged
C6_Witness ==
    /\ job = "clean" /\ pc = "idle"
    /\ reqs = <<>>
    /\ \E venue \in Names : Has(stored, venue) /\ Get(stored, venue)[2] = Missing
    /\ \E venue \in Names : Has(stored, venue) /\ Get(stored, venue)[3] = Unavailable

(***************************************************************************)
(* C7: idempotence on a fully Resolved record.  No step of a run of        *)
(* either job sends a scrape or lookup-API request for a venue whose       *)
(* record is fully Resolved, and no step changes such a record.            *)
(***************************************************************************)
C7_ResolvedRecordUntouched ==
    [][InRun =>
          \A venue \in Names :
             (Has(venue_dict, venue) /\ FullyResolved(Get(venue_dict, venue))) =>
                /\ ~SendsFor(venue)
                /\ RowOf(venue_dict', venue) = RowOf(venue_dict, venue)]_vars

\* a venue-location run has gone over the whole venue list without a request
\* and without an interruption, and the registry it loaded was fully Resolved
C7_Witness ==
    /\ job = "loc" /\ pc = "backup" /\ i > Len(venue_list) /\ intr = NoIntr
    /\ reqs = <<>>
    /\ \A venue \in Names :
          /\ Has(stored, venue) /\ FullyResolved(Get(stored, venue))
          /\ Get(venue_dict, venue) = Get(stored, venue)

(***************************************************************************)
(* C8: checkpoint on interruption.  After a KeyboardInterrupt in the       *)
(* venue-location run the registry in memory stays what it was at the      *)
(* interruption, the run is at its final backup, and when the run is over  *)
(* the persisted registry is exactly that registry, each venue once.       *)
(***************************************************************************)
C8_InterruptPersists ==
    (job = "loc" /\ intr # NoIntr) =>
       /\ pc \in {"backup", "idle"}
       /\ venue_dict = intr.dict
       /\ pc = "idle" =>
             /\ stored = write_dict_to_csv(intr.dict)
             /\ UniqueNames(stored)

\* a run interrupted while the search request of its second venue was in
\* flight has persisted the first venue's resolved record and the second
\* venue's scraped urls
C8_Witness ==
    /\ job = "loc" /\ pc = "idle" /\ intr.at = "search"
    /\ Len(stored) = 2
    /\ FullyResolved(stored[1].data)
    /\ Truthy(stored[2].data[2]) /\ Unresolved(stored[2].data[3])

(***************************************************************************)
(* C9: final persist.  A venue-location run that was not interrupted       *)
(* leaves its loop only when the venue list is exhausted or the scrape     *)
(* breaker has tripped, and when it is over the persisted registry is the  *)
(* registry in memory.                                                     *)
(***************************************************************************)
C9_FinalPersist ==
    (job = "loc" /\ intr = NoIntr) =>
       /\ pc \in {"backup", "idle"} => (i > Len(venue_list) \/ "scrape" \in failed)
       /\ pc = "idle" => stored = write_dict_to_csv(venue_dict)

\* a run that ended by the scrape breaker on its second venue, after the
\* first venue was resolved in this run: both records are persisted
C9_Witness ==
    /\ job = "loc" /\ pc = "idle" /\ intr = NoIntr
    /\ "scrape" \in failed /\ i = 2
    /\ Len(stored) = 2
    /\ FullyResolved(stored[1].data)
    /\ RequestsFor(stored[1].venue) # {}

(***************************************************************************)
(* C10: cancellation.  As claimed: an interruption takes effect only       *)
(* between two venue iterations, at the head of the loop.                  *)
(***************************************************************************)
C10_CancelOnlyBetweenIterations == intr.at \in {"none", "for"}

(***************************************************************************)
(* C10 as amended: KeyboardInterrupt is not cooperative.  It can hit at    *)
(* every position of the try block, also while a request is in flight or   *)
(* during a pause; the iteration in progress is then abandoned: the        *)
(* response of a request in flight is never received, no further request   *)
(* is sent, the loop does not advance, and the run is at its final         *)
(* backup.                                                                 *)
(***************************************************************************)
C10_InterruptAnywhere ==
    /\ (job = "loc" /\ pc \in {"for", "checkin", "venuepage", "sleep4", "fs",
                               "search", "sleep075", "timer"}) => ENABLED Interrupt
    /\ (job = "loc" /\ intr # NoIntr) =>
          /\ pc \in {"backup", "idle"}
          /\ intr.at \in {"checkin", "venuepage", "search"} =>
                /\ last.src # intr.at
                /\ reqs # <<>> /\ reqs[Len(reqs)].src = intr.at
                /\ i <= Len(venue_list) /\ reqs[Len(reqs)].venue = cur

\* a finished run that was interrupted while the venue page request of its
\* first venue was in flight: the venue has no record
C10_Witness ==
    /\ job = "loc" /\ pc = "idle" /\ intr.at = "venuepage"
    /\ i = 1 /\ last = Resp("checkin", venue_list[1][1], 200)
    /\ stored = <<>>

(***************************************************************************)
(* C11: authoritative absence on the scrape source.  As claimed: when      *)
(* search_untappd answered 'Missing' for the venue of the iteration (404   *)
(* on either page, or a page without the venue link, the Foursquare link   *)
(* or the coordinates), then at the end of the iteration every field of    *)
(* the venue's record is PermanentlyUnavailable.                           *)
(***************************************************************************)
C11_AbsentMarksWholeRecord ==
    (job = "loc" /\ pc = "timer" /\ RequestsFor(cur) # {}
        /\ Get(venue_dict, cur)[1] = Missing)
       => \A c \in 1..7 : PermanentlyUnavailable(Get(venue_dict, cur)[c])

(***************************************************************************)
(* C12: consistency of address and source urls.  In the registry in        *)
(* memory and in the persisted registry, a record with a Resolved address  *)
(* has a concrete Untappd url or a concrete Foursquare url.                *)
(***************************************************************************)
ConcreteUrl(cell) == cell # Empty /\ cell # Missing

AddressHasSource(d) ==
    \A k \in 1..Len(d) :
       Resolved(d[k].data[3]) => (ConcreteUrl(d[k].data[1]) \/ ConcreteUrl(d[k].data[2]))

C12_AddressNeedsSourceUrl == AddressHasSource(venue_dict) /\ AddressHasSource(stored)

\* the persisted registry holds a record without source urls next to one
\* whose address the completion job has resolved
C12_Witness ==
    /\ job = "clean" /\ pc = "idle" /\ Len(stored) = 2
    /\ ~ConcreteUrl(stored[1].data[1]) /\ ~ConcreteUrl(stored[1].data[2])
    /\ PermanentlyUnavailable(stored[1].data[3])
    /\ Resolved(stored[2].data[3]) /\ ConcreteUrl(stored[2].data[2])
    /\ reqs # <<>>

(***************************************************************************)
(* Vocabulary of the properties of the feed jobs.                          *)
(***************************************************************************)
\* the number of rows the aggregate csv holds for a post object
RowsOf(log, post_key) == Cardinality({n \in 1..Len(log) : log[n] = PostRow(post_key)})

\* the persisted cursor of the k-th brewery, '' when it has none
Cursor(k) == get_last_parsed_ids(last_parsed)[k]

\* a parse run that started now would find nothing to parse
NothingToParse ==
    \A k \in 1..NumBreweries :
       get_next_post_ids(bucket, untappd_breweries[k], Cursor(k)) = <<>>

\* the post object lies at or before the persisted cursor of its brewery,
\* both in the order of the listing and in the order of the ids
AtOrBeforeCursor(o) ==
    \E k \in 1..NumBreweries :
       /\ untappd_breweries[k] = o.brewery
       /\ Cursor(k) # <<>>
       /\ ~StrLess(Cursor(k), o.id)
       /\ int(o.id) <= int(Cursor(k))

\* the poll run writes a post object in this step
PollWrites == Len(puts') = Len(puts) + 1

MaxOf(S) == CHOOSE m \in S : \A n \in S : n <= m

(***************************************************************************)
(* C13: admission of a post id.  As claimed: a step of the poll job that   *)
(* writes a post object writes a post id of which the bucket holds no      *)
(* object yet, in this run or an earlier one.                              *)
(***************************************************************************)
C13_WrittenOnce ==
    [][PollWrites => \A o \in bucket : o.id # puts'[Len(puts')].id]_vars

(***************************************************************************)
(* C14: the watermark.  No step lowers the id of last_update.json, and the *)
(* step that ends a poll run sets it to the maximum of its value before    *)
(* the run and of the ids of all entries the feeds delivered to the run.   *)
(***************************************************************************)
C14_WatermarkIsMax ==
    [][/\ last_update' >= last_update
       /\ (poll_pc = "for" /\ poll_pc' = "idle")
             => last_update' = MaxOf({last_update}
                                     \cup {int(posts[n].id) : n \in 1..Len(posts)})]_vars

\* a poll run has ended that was delivered the larger id before the smaller
\* one: both were written, the watermark is the larger
C14_Witness ==
    /\ poll_pc = "idle"
    /\ last_update = FirstPostId + 1
    /\ Key(untappd_breweries[1], FirstPostId) \in bucket
    /\ Key(untappd_breweries[1], FirstPostId + 1) \in bucket

(***************************************************************************)
(* C15: poll and parse interleaved.  As claimed: the aggregate csv never   *)
(* holds two rows for a post object, and when both jobs are idle and a     *)
(* parse run would find nothing to parse, every post object of the bucket  *)
(* has its row.                                                            *)
(***************************************************************************)
C15_EveryPostOneRow ==
    /\ \A o \in bucket : RowsOf(aggregate, o) <= 1
    /\ (poll_pc = "idle" /\ parse_pc = "idle" /\ NothingToParse)
          => \A o \in bucket : RowsOf(aggregate, o) = 1

(***************************************************************************)
(* C16: the persisted parse cursor.  As claimed: in every state, a crash   *)
(* included, every post object at or before the persisted cursor of its    *)
(* brewery has a row in the persisted aggregate csv.                       *)
(***************************************************************************)
C16_CursorOnlyPastLoggedPosts ==
    \A o \in bucket : AtOrBeforeCursor(o) => RowsOf(aggregate, o) >= 1

\* the order of lines 229-231 on its own: a step that writes last_parsed.json
\* finds the rows of the run in the persisted aggregate csv
CursorWrittenAfterUpload ==
    [][last_parsed' # last_parsed
          => \A n \in 1..Len(rows) : \E m \in 1..Len(aggregate) : aggregate[m] = rows[n]]_vars

(***************************************************************************)
(* Vocabulary of the properties of parse_post.                             *)
(***************************************************************************)
Parsed == returned # NotParsed

\* the position of the n-th occurrence of sub in s, counted from the left
\* without overlap; 0 when there are fewer
RECURSIVE NthOccurrence(_, _, _)
NthOccurrence(s, sub, n) ==
    LET k == find(s, sub)
    IN  IF k = 0 THEN 0
        ELSE IF n = 1 THEN k
        ELSE LET r == NthOccurrence(SubSeq(s, k + Len(sub), Len(s)), sub, n - 1)
             IN  IF r = 0 THEN 0 ELSE k + Len(sub) - 1 + r

\* the ' at ' that separates the venue: the first, the second for a title
\* with a name of the exception list; 0 when the title has none
ChosenAt(title) == NthOccurrence(title, At, LocIdx(title))

\* the title up to the chosen ' at ', all of it when there is none
BeforeChosenAt(title) ==
    IF ChosenAt(title) = 0 THEN title ELSE SubSeq(title, 1, ChosenAt(title) - 1)

\* the title after the chosen ' at ', '' when there is none
AfterChosenAt(title) ==
    IF ChosenAt(title) = 0 THEN <<>>
    ELSE SubSeq(title, ChosenAt(title) + Len(At), Len(title))

\* the title says ' is drinking ' before the chosen ' at '
NamesBeverage(title) == contains(BeforeChosenAt(title), IsDrinking)

\* the text between ' is drinking ' and the chosen ' at '
BeverageText(title) ==
    LET t == BeforeChosenAt(title)
    IN  SubSeq(t, find(t, IsDrinking) + Len(IsDrinking), Len(t))

\* parse_post accepts the title: with an empty summary it returns a row
TitleParses(title) == parse_post([title |-> title, summary |-> <<>>]).result = "row"

StarsClose == <<"/", "5", " ", "S", "t", "a", "r", "s", ")">>

\* the text after the last '(' of the summary, and whether there is a '('
HasParen(summary) == rfind(summary, Paren) # 0
AfterLastParen(summary) == SubSeq(summary, rfind(summary, Paren) + 1, Len(summary))

\* the text between the last '(' and a closing '/5 Stars)' at the end,
\* when the summary ends so
StarsText(summary) ==
    LET t == AfterLastParen(summary)
    IN  SubSeq(t, 1, Len(t) - Len(StarsClose))

\* the summary ends in '(<number>/5 Stars)'
EndsInRating(summary) ==
    LET t == AfterLastParen(summary)
    IN  /\ HasParen(summary)
        /\ Len(t) >= Len(StarsClose)
        /\ SubSeq(t, Len(t) - Len(StarsClose) + 1, Len(t)) = StarsClose
        /\ float(StarsText(summary)).ok

\* the summary before the '(' of its rating
BeforeRating(summary) == SubSeq(summary, 1, rfind(summary, Paren) - 1)

(***************************************************************************)
(* C17: the beverage name.  As claimed: for a title that says              *)
(* ' is drinking ', parse_post returns a row, and the beverage name of the *)
(* row is the whole text between ' is drinking ' and the chosen ' at '     *)
(* (the end of the title when there is none).                              *)
(***************************************************************************)
C17_BeverageIsWholeText ==
    (Parsed /\ NamesBeverage(post.title))
       => (returned.result = "row" /\ returned.beer = BeverageText(post.title))

C19_RatingIsNumberOrAbsent ==
    (Parsed /\ TitleParses(post.title))
       => /\ returned.result = "row"
          /\ EndsInRating(post.summary)
                => returned.rating = float(StarsText(post.summary))
          /\ (HasParen(post.summary)
                 /\ ~float(str_split(AfterLastParen(post.summary), Stars, 1)[1]).ok)
                => returned.rating = <<>>

\* a summary with an aside in brackets before its rating
C19_Witness ==
    /\ Parsed /\ returned.result = "row"
    /\ post.summary = NiceReally \o Stars375
    /\ returned.rating = Number(FALSE, 3, <<"7", "5">>)

(***************************************************************************)
(* C20: the comment.  As claimed: in a row parse_post returns, when the    *)
(* summary ends in '(<number>/5 Stars)' the comment is the summary before  *)
(* that fragment; otherwise the comment is the whole summary and the       *)
(* rating is ''.                                                           *)
(***************************************************************************)
C20_CommentIsSummaryWithoutRating ==
    (Parsed /\ returned.result = "row")
       => IF EndsInRating(post.summary)
          THEN returned.comment = BeforeRating(post.summary)
          ELSE returned.comment = post.summary /\ returned.rating = <<>>

(***************************************************************************)
(* Vocabulary of the properties of the HTML parsers.                       *)
(***************************************************************************)
FedTo(by) == scraped.by = by

IsStart(token, tag) == token.type = "start" /\ token.tag = tag
IsEnd(token, tag) == token.type = "end" /\ token.tag = tag

\* the value of the attribute in the token, <<>> when it has none
Attribute(token, name) ==
    IF name \in DOMAIN dict(token.attributes) THEN <<dict(token.attributes)[name]>> ELSE <<>>

\* a token the parsers look for: a link or a coordinate tag
IsLink(token) == IsStart(token, "a")
IsCoordinate(token) ==
    /\ IsStart(token, "meta")
    /\ \E k \in 1..Len(token.attributes) :
          token.attributes[k][1] = "property" /\ token.attributes[k][2] \in CoordProperties

NoMatch(page) == \A k \in 1..Len(page) : ~IsLink(page[k]) /\ ~IsCoordinate(page[k])

(***************************************************************************)
(* C21: on any page both parsers finish without an exception, and on a     *)
(* page without a link or coordinate token what they yield is empty.       *)
(***************************************************************************)
C21_ParsersNeverRaise ==
    /\ FedTo("CheckinHTMLParser") =>
          /\ scraped.raised = "none"
          /\ NoMatch(markup) => scraped.parser.url = <<>>
    /\ FedTo("VenueHTMLParser") =>
          /\ scraped.raised = "none"
          /\ NoMatch(markup) => scraped.parser.urls = <<>> /\ scraped.parser.coords = <<>>

\* the containers and the links the two parsers look for
IsLocationP(token) == IsStart(token, "p") /\ IsLocation(token.attributes)
IsVenueSocialDiv(token) ==
    IsStart(token, "div") /\ Attribute(token, "class") = <<"venue-social">>
IsCheckinLink(token) == IsLink(token) /\ Hrefs(token.attributes) # <<>>
IsFoursquareLink(token) ==
    IsLink(token) /\ Attribute(token, "class") = <<"fs track-click">>

\* what a parser emits for a link: CheckinHTMLParser the href,
\* VenueHTMLParser the href up to its query part
CheckinHref(token) == Hrefs(token.attributes)[1][2]
FoursquareHref(token) == BeforeQuery(Attribute(token, "href")[1])

Count(page, from, to, Is(_)) == Cardinality({m \in from..to : Is(page[m])})

\* page[m] closes the container that page[c] opened: as many elements of
\* that tag were opened as were closed in between
MatchingClose(page, c, m, tag) ==
    /\ IsEnd(page[m], tag)
    /\ Count(page, c + 1, m - 1, LAMBDA t : IsStart(t, tag))
          = Count(page, c + 1, m - 1, LAMBDA t : IsEnd(t, tag))

\* page[k] lies inside a container: after its start tag and before its
\* matching close token
InsideContainer(page, k, tag, IsContainer(_)) ==
    \E c \in 1..(k - 1) :
       /\ IsContainer(page[c])
       /\ \A m \in (c + 1)..(k - 1) : ~MatchingClose(page, c, m, tag)

\* page[k] lies after the start tag of a container with no close token of
\* the container's tag name in between, whatever element that token closes
InOpenScope(page, k, tag, IsContainer(_)) ==
    \E c \in 1..(k - 1) :
       /\ IsContainer(page[c])
       /\ \A m \in (c + 1)..(k - 1) : ~IsEnd(page[m], tag)

\* what is emitted for the positions of S, in document order
InOrder(page, S, Emit(_)) ==
    [n \in 1..Cardinality(S) |->
        Emit(page[CHOOSE k \in S : Cardinality({j \in S : j < k}) = n - 1])]

CheckinLinksInside(page) ==
    {k \in 1..Len(page) :
        IsCheckinLink(page[k]) /\ InsideContainer(page, k, "p", IsLocationP)}
FoursquareLinksInside(page) ==
    {k \in 1..Len(page) :
        IsFoursquareLink(page[k]) /\ InsideContainer(page, k, "div", IsVenueSocialDiv)}

CheckinLinksInScope(page) ==
    {k \in 1..Len(page) :
        IsCheckinLink(page[k]) /\ InOpenScope(page, k, "p", IsLocationP)}
FoursquareLinksInScope(page) ==
    {k \in 1..Len(page) :
        IsFoursquareLink(page[k]) /\ InOpenScope(page, k, "div", IsVenueSocialDiv)}

(***************************************************************************)
(* C26, as claimed: a parser that has finished has emitted, in document    *)
(* order, exactly the links that lie between the start tag of a            *)
(* qualifying container and that container's matching close token.         *)
(***************************************************************************)
C26_LinksInsideContainer ==
    /\ FedTo("CheckinHTMLParser") =>
          scraped.parser.url = InOrder(markup, CheckinLinksInside(markup), CheckinHref)
    /\ (FedTo("VenueHTMLParser") /\ scraped.raised = "none") =>
          scraped.parser.urls = InOrder(markup, FoursquareLinksInside(markup), FoursquareHref)

(***************************************************************************)
(* C26, amended: a parser that has finished has emitted, in document       *)
(* order, exactly the links that follow the start tag of a qualifying      *)
(* container with no close token of the container's tag name in between.   *)
(***************************************************************************)
C26_LinksInOpenScope ==
    /\ FedTo("CheckinHTMLParser") =>
          scraped.parser.url = InOrder(markup, CheckinLinksInScope(markup), CheckinHref)
    /\ (FedTo("VenueHTMLParser") /\ scraped.raised = "none") =>
          scraped.parser.urls = InOrder(markup, FoursquareLinksInScope(markup), FoursquareHref)

\* a venue page with a nested element closed inside the container before
\* the link: nothing was emitted, though the link lies inside the container
C26_Witness ==
    /\ FedTo("VenueHTMLParser") /\ scraped.raised = "none"
    /\ FoursquareLinksInside(markup) # {}
    /\ FoursquareLinksInScope(markup) = {}
    /\ scraped.parser.urls = <<>>

\* the positions of the page's metadata tags of a property
TagsOf(page, property) ==
    {k \in 1..Len(page) :
        IsStart(page[k], "meta") /\ Attribute(page[k], "property") = <<property>>}

\* the page has one latitude tag and one longitude tag
HasBothTags(page) ==
    /\ Cardinality(TagsOf(page, "place:location:latitude")) = 1
    /\ Cardinality(TagsOf(page, "place:location:longitude")) = 1

\* the content of the page's only tag of a property
ContentOf(page, property) ==
    Attribute(page[CHOOSE k \in TagsOf(page, property) : TRUE], "content")[1]

\* search_untappd returned a row with scraped data
RowFilled == FedTo("search_untappd") /\ scraped.raised = "none" /\ scraped.row # Missing5

(***************************************************************************)
(* C29: in a row search_untappd fills from a venue page with a latitude    *)
(* tag and a longitude tag, the latitude column is the content of the      *)
(* latitude tag and the longitude column the content of the longitude      *)
(* tag, in whatever order the two tags occur.                              *)
(***************************************************************************)
C29_CoordinatesByProperty ==
    (RowFilled /\ HasBothTags(markup)) =>
       /\ scraped.row[4] = Str(ContentOf(markup, "place:location:latitude"))
       /\ scraped.row[5] = Str(ContentOf(markup, "place:location:longitude"))

(***************************************************************************)
(* C22: no response aborts the run.  Whatever a request of the             *)
(* venue-location run is answered with, the run is then still in its loop  *)
(* or, when a breaker has tripped, on its way to the final persist.        *)
(***************************************************************************)
C22_ResponseNeverAbortsRun ==
    [][(job = "loc" /\ Receives) =>
          \/ pc' \in TryPcs
          \/ pc' = "backup" /\ failed' # {}]_vars

(***************************************************************************)
(* Vocabulary of the pauses.                                               *)
(***************************************************************************)
\* requests j and k of the run are consecutive requests to these sources
Consecutive(j, k, srcs) ==
    /\ j < k
    /\ reqs[j].src \in srcs /\ reqs[k].src \in srcs
    /\ \A m \in (j + 1)..(k - 1) : reqs[m].src \notin srcs

\* a pause of one of these lengths was made after request j was sent and
\* before request k was
PauseBetween(j, k, lengths) ==
    \E p \in 1..Len(pauses) :
       j <= pauses[p].after /\ pauses[p].after < k /\ pauses[p].secs \in lengths

(***************************************************************************)
(* C23, as claimed: in a venue-location run a pause lies between any two   *)
(* consecutive lookup requests and a pause of about 4 s between any two    *)
(* consecutive scrape requests.                                            *)
(***************************************************************************)
C23_EveryRequestThrottled ==
    job = "loc" =>
       \A j, k \in 1..Len(reqs) :
          /\ Consecutive(j, k, LookupSrc) => PauseBetween(j, k, {"0.75", "3..5"})
          /\ Consecutive(j, k, ScrapeSrc) => PauseBetween(j, k, {"3..5"})

(***************************************************************************)
(* C23, amended: a pause lies between any two consecutive lookup requests  *)
(* and a pause of about 4 s between any two consecutive scrape requests    *)
(* for different venues; the two scrape requests for one venue are sent    *)
(* with no pause between them.                                             *)
(***************************************************************************)
C23_ThrottledPerVenue ==
    job = "loc" =>
       \A j, k \in 1..Len(reqs) :
          /\ Consecutive(j, k, LookupSrc) => PauseBetween(j, k, {"0.75", "3..5"})
          /\ Consecutive(j, k, ScrapeSrc) =>
                IF reqs[j].venue = reqs[k].venue
                THEN k = j + 1 /\ ~PauseBetween(j, k, {"0.75", "3..5"})
                ELSE PauseBetween(j, k, {"3..5"})

\* a run that sent the two scrape requests of its first venue back to
\* back, paused, sent a lookup request, and did the same for its second
\* venue
C23_Witness ==
    /\ job = "loc" /\ Len(reqs) = 6 /\ Len(pauses) = 2
    /\ Consecutive(1, 2, ScrapeSrc) /\ reqs[1].venue = reqs[2].venue
    /\ Consecutive(2, 4, ScrapeSrc) /\ reqs[2].venue # reqs[4].venue
    /\ Consecutive(3, 6, LookupSrc)

(***************************************************************************)
(* Vocabulary of the properties of the lookup responses.                   *)
(***************************************************************************)
Answered(by) == answered.by = by /\ asked.query.status = 200

\* the columns of a returned row
AddressCol == 1
LatCol == 2
LongCol == 3
CategoriesCol == 4
CountryCol == 5
LookupCols == {AddressCol, LatCol, LongCol, CategoriesCol, CountryCol}

\* the key of the location a column is filled from
KeyOf(col) ==
    CASE col = AddressCol -> "formattedAddress"
      [] col = LatCol -> "lat"
      [] col = LongCol -> "lng"
      [] col = CountryCol -> "country"

\* the candidate lacks a key the column is filled from
Lacks(candidate, col) ==
    IF col = CategoriesCol
    THEN \E k \in 1..Len(candidate.categories) : "name" \notin DOMAIN candidate.categories[k]
    ELSE KeyOf(col) \notin DOMAIN candidate.location

\* the candidate carries a value for the column
Carries(candidate, col) ==
    /\ ~Lacks(candidate, col)
    /\ col = AddressCol => candidate.location.formattedAddress # <<>>

Complete(candidate) == \A col \in LookupCols : ~Lacks(candidate, col)

\* the value a column is given from a candidate that carries what it needs
ValueOf(candidate, col) ==
    CASE col = AddressCol -> Str(Join(candidate.location.formattedAddress))
      [] col = LatCol -> Num(candidate.location.lat)
      [] col = LongCol -> Num(candidate.location.lng)
      [] col = CategoriesCol ->
            IF candidate.categories = <<>> THEN Str("Uncategorized")
            ELSE Str(Join([k \in 1..Len(candidate.categories) |->
                              candidate.categories[k].name]))
      [] col = CountryCol -> Bool(candidate.location.country = "United States")

\* the positions of the candidates with the id of the record's lookup url
Matching(record, venues) ==
    {k \in 1..Len(venues) : venues[k].id = LastSegment(record[2].v)}
CompleteMatching(record, venues) ==
    {k \in Matching(record, venues) : Complete(venues[k])}
First(S) == CHOOSE k \in S : \A j \in S : k <= j

\* the row of a record none of whose candidates was accepted
Unmatched(record) == <<Missing, record[4], record[5], Missing, Missing>>

\* each column the candidate carries is Resolved, each column whose key it
\* lacks is PermanentlyUnavailable
FieldByField(candidate, row) ==
    \A col \in LookupCols :
       /\ Carries(candidate, col) => Resolved(row[col])
       /\ Lacks(candidate, col) => PermanentlyUnavailable(row[col])

(***************************************************************************)
(* C24, as claimed: in the row either search_foursquare returns for a      *)
(* response with status 200, a key the venue of the response lacks makes   *)
(* its own column PermanentlyUnavailable and every column the venue        *)
(* carries is Resolved.                                                    *)
(***************************************************************************)
C24_MissingKeyAffectsItsFieldOnly ==
    /\ (Answered("details") /\ asked.query.venues # <<>>) =>
          FieldByField(asked.query.venues[1], answered.row)
    /\ (Answered("search") /\ Matching(asked.venue_info, asked.query.venues) # {}) =>
          FieldByField(asked.query.venues[First(Matching(asked.venue_info,
                                                         asked.query.venues))],
                       answered.row)

\* the names of the categories, 'Unavailable' for a category without name
NamesOrUnavailable(categories) ==
    [k \in 1..Len(categories) |->
        IF "name" \in DOMAIN categories[k] THEN categories[k].name ELSE "Unavailable"]

\* each column of the location is 'Unavailable' when its key is lacking
\* and Resolved when it is carried, and the categories column lists the
\* categories with 'Unavailable' for each category without name
KeyByKey(candidate, row) ==
    /\ \A col \in LookupCols \ {CategoriesCol} :
          /\ Carries(candidate, col) => Resolved(row[col])
          /\ Lacks(candidate, col) => row[col] = Unavailable
    /\ row[CategoriesCol] =
          IF candidate.categories = <<>> THEN Str("Uncategorized")
          ELSE Str(Join(NamesOrUnavailable(candidate.categories)))

(***************************************************************************)
(* C24, amended: the fetch by id fills its row key by key.  The search by  *)
(* name takes a candidate as a whole: when no candidate with the id of     *)
(* the record carries every key, address, categories and country-match     *)
(* are all 'Missing' and the coordinates are the scraped ones; otherwise   *)
(* no column is PermanentlyUnavailable.                                    *)
(***************************************************************************)
C24_FieldByFieldInFetchOnly ==
    /\ (Answered("details") /\ asked.query.venues # <<>>) =>
          KeyByKey(asked.query.venues[1], answered.row)
    /\ (Answered("search") /\ asked.venue_info[2] # Missing) =>
          IF CompleteMatching(asked.venue_info, asked.query.venues) = {}
          THEN answered.row = Unmatched(asked.venue_info)
          ELSE \A col \in LookupCols : ~PermanentlyUnavailable(answered.row[col])

\* the fetch by id returned a row for a venue without 'country' that has an
\* address and a category
C24_Witness ==
    /\ Answered("details") /\ asked.query.venues # <<>>
    /\ asked.query.venues[1].location = LocNoCountry
    /\ asked.query.venues[1].categories = <<Bar>>
    /\ answered.row[CountryCol] = Unavailable
    /\ Resolved(answered.row[AddressCol]) /\ Resolved(answered.row[CategoriesCol])

(***************************************************************************)
(* C25, as claimed: the search by name fills the row from the first        *)
(* candidate with the id of the record's lookup url, and returns           *)
(* 'Missing' with the scraped coordinates when no candidate has that id.   *)
(***************************************************************************)
C25_FirstMatchAccepted ==
    (Answered("search") /\ asked.venue_info[2] # Missing) =>
       LET venues == asked.query.venues
           matching == Matching(asked.venue_info, venues)
       IN  IF matching = {}
           THEN answered.row = Unmatched(asked.venue_info)
           ELSE \A col \in LookupCols :
                   Carries(venues[First(matching)], col) =>
                      answered.row[col] = ValueOf(venues[First(matching)], col)

(***************************************************************************)
(* C25, amended: the search by name fills the row from the first           *)
(* candidate that has the id of the record's lookup url and carries every  *)
(* key, and returns 'Missing' with the scraped coordinates when there is   *)
(* no such candidate.                                                      *)
(***************************************************************************)
C25_FirstCompleteMatchAccepted ==
    (Answered("search") /\ asked.venue_info[2] # Missing) =>
       LET venues == asked.query.venues
           complete == CompleteMatching(asked.venue_info, venues)
       IN  IF complete = {}
           THEN answered.row = Unmatched(asked.venue_info)
           ELSE answered.row =
                   [col \in 1..5 |-> ValueOf(venues[First(complete)], col)]

\* the first candidate with the id lacks the address, the second one with
\* the id carries every key and the row is filled from it
C25_Witness ==
    /\ Answered("search") /\ asked.venue_info = ScrapedRecord
    /\ Len(asked.query.venues) = 2
    /\ Matching(asked.venue_info, asked.query.venues) = {1, 2}
    /\ CompleteMatching(asked.venue_info, asked.query.venues) = {2}
    /\ answered.row[LatCol] = Num(asked.query.venues[2].location.lat)

(***************************************************************************)
(* C30: a run all of whose requests were answered with status 200.  When   *)
(* a venue-location run that no request of which met a transient status    *)
(* and that left every venue with a scraped url is over without an         *)
(* interruption, it has gone through the whole venue list, the lookup      *)
(* breaker has not tripped and no field of a venue is Unresolved in the    *)
(* persisted registry.                                                     *)
(***************************************************************************)
C30_AllOkRunResolvesAll ==
    (/\ job = "loc" /\ pc = "idle" /\ intr = NoIntr
     /\ failed = {}
     /\ \A n \in 1..Len(venue_dict) : ConcreteUrl(venue_dict[n].data[1])) =>
       /\ i > Len(venue_list)
       /\ foursquare_available
       /\ \A venue \in Names :
             /\ Has(stored, venue)
             /\ \A c \in 1..Len(Get(stored, venue)) : ~Unresolved(Get(stored, venue)[c])

(***************************************************************************)
(* Vocabulary of the properties of the venue list.                         *)
(***************************************************************************)
NamesOf(file) == {file[k][1] : k \in 1..Len(file)}

IsPrefix(old, new) == Len(old) <= Len(new) /\ SubSeq(new, 1, Len(old)) = old

\* the link of the first of the rows that names the venue
FirstLink(post_rows, venue) ==
    post_rows[CHOOSE k \in 1..Len(post_rows) :
                 /\ post_rows[k].venue = venue
                 /\ \A j \in 1..(k - 1) : post_rows[j].venue # venue].link

(***************************************************************************)
(* C27: every parse run leaves venue_list.csv with each name at most once  *)
(* and without the empty name; it keeps the rows the file had, in place,   *)
(* and appends one row for each venue of its posts that the file did not   *)
(* name, with the link of the first of its posts at that venue.            *)
(***************************************************************************)
C27_VenueListGrowsByNewNames ==
    [][/\ IsPrefix(venue_file, venue_file')
       /\ \A j, k \in 1..Len(venue_file') :
             venue_file'[j][1] = venue_file'[k][1] => j = k
       /\ "" \notin NamesOf(venue_file')
       /\ NamesOf(venue_file') =
             NamesOf(venue_file) \cup ({parsed_rows'[k].venue : k \in 1..Len(parsed_rows')} \ {""})
       /\ \A k \in (Len(venue_file) + 1)..Len(venue_file') :
             /\ venue_file'[k][1] \notin NamesOf(venue_file)
             /\ venue_file'[k][2] = FirstLink(parsed_rows', venue_file'[k][1])]_vars

\* a run with two posts at one new venue and a file that named another
\* venue: one row was appended, with the link of the first post
C27_Witness ==
    /\ Len(parsed_rows) = 2
    /\ parsed_rows[1].venue = parsed_rows[2].venue
    /\ parsed_rows[1].link # parsed_rows[2].link
    /\ Len(venue_file) = 2
    /\ venue_file[2] = <<parsed_rows[1].venue, parsed_rows[1].link>>

(***************************************************************************)
(* Vocabulary of the properties of the backups.                            *)
(***************************************************************************)
\* the days with a backup folder, and the files of the folder of a day
Folders == {o[1] : o \in backups}
FilesOf(day) == {o[2] : o \in {b \in backups : b[1] = day}}

(***************************************************************************)
(* C28: when the job has run on a day, the folder of that day holds the    *)
(* five files and no folder is older than 7 days.                          *)
(***************************************************************************)
C28_BackupsOfLastWeekOnly ==
    ran =>
       /\ FilesOf(today) = file_list
       /\ \A day \in Folders : today <= day + 7

(***************************************************************************)
(* Vocabulary of the properties of the listing.                            *)
(***************************************************************************)
\* the parse run is about to list the post objects of a brewery after the
\* id of the post it parsed last
ListsAfterCursor ==
    IF parse_pc = "list" THEN last_parsed_ids[brewery] # <<>> ELSE FALSE

\* what get_next_post_ids returns to the parse run in this state
Listing ==
    get_next_post_ids(bucket, untappd_breweries[brewery], last_parsed_ids[brewery])

ListedKeys == {Listing[n] : n \in 1..Len(Listing)}

\* the post objects of the brewery whose id is greater than the id of the
\* post parsed last
GreaterIds ==
    {o \in bucket : /\ o.brewery = untappd_breweries[brewery]
                    /\ int(o.id) > int(last_parsed_ids[brewery])}

(***************************************************************************)
(* C31: the listing after the cursor.  As claimed: in parse runs that no   *)
(* poll run interleaves with, get_next_post_ids called with the id of the  *)
(* post parsed last returns no post object whose id is smaller than or     *)
(* equal to that id, and, up to the size of a page, every post object of   *)
(* the brewery whose id is greater, whatever the number of digits of the   *)
(* ids.                                                                    *)
(***************************************************************************)
C31_ListingReturnsGreaterIds ==
    ListsAfterCursor =>
       /\ ListedKeys \subseteq GreaterIds
       /\ Len(Listing) < MaxKeys => GreaterIds \subseteq ListedKeys

\* lines 208-214 on their own: the loop of a brewery goes on after a
\* listing that returned post objects and ends after an empty one
LoopEndsOnEmptyListing ==
    [][parse_pc = "list" =>
          ((brewery' # brewery \/ parse_pc' # "list") <=> Listing = <<>>)]_vars

\* among ids of one length the listing returns the greater ids
ListingReturnsGreaterIdsOfOneLength ==
    (ListsAfterCursor /\ \A o \in bucket : Len(o.id) = Len(last_parsed_ids[brewery]))
       => /\ ListedKeys \subseteq GreaterIds
          /\ Len(Listing) < MaxKeys => GreaterIds \subseteq ListedKeys

====
